---- MODULE Spec2Model ----
(***************************************************************************)
(* Recipe costing back end (PP-Food-Fair).                                 *)
(*                                                                         *)
(* Numbers.  A request carries decimal numbers; the model holds them as    *)
(* whole numbers of a fixed unit:                                          *)
(*   quantity, hoursPerWorker         hundredths        (2.5  -> 250)      *)
(*   costPerUnit, laborHourlyRate     thousandths       (1.50 -> 1500)     *)
(*   costPerHour                      hundredths        (28   -> 2800)     *)
(*   minutesPerPie                    tenths            (12   -> 120)      *)
(*   markupPercentage                 hundredths        (10   -> 1000)     *)
(*   batchSize, workers               whole numbers                        *)
(* The calculator computes with JavaScript numbers, which are IEEE-754     *)
(* doubles.  A double >= 0 is [m, e], standing for m * 2^e, where m is a   *)
(* natural number below 2^53 held as limbs of 15 bits, the least           *)
(* significant first, and m is odd or zero, so that equal doubles are      *)
(* equal records; neg tells a number below zero (-0 is held as 0).  Every  *)
(* operation gives the double nearest to the exact result, a tie going to  *)
(* the even one.                                                           *)
(* A stored figure is Math.round(v * 100) / 100: the double nearest to     *)
(* k / 100 for the whole number k = Math.round(v * 100).  A document holds *)
(* the k of each figure: 7.21 is 721.                                      *)
(***************************************************************************)
EXTENDS Integers, Sequences, FiniteSets, TLC

VARIABLES
  Ingredient,   \* the Ingredient collection: id -> ingredient document
  Recipe,       \* the Recipe collection: id -> stored recipe document
  written,      \* history: id -> the ingredients the recipe refers to, as last written with
  response,     \* the answer to the last request
  doc,          \* a recipe document in memory, for the calculator on its own
  unrounded,    \* history: the figures of doc (doubles) before the final 2-decimal pass
  calls,        \* history: calls of updateCalculatedCostsAndPrice on doc
  firstOut,     \* history: the outputs of the first call
  before,       \* history: what the output fields of doc held before the first call
  retired,      \* the _ids of deleted ingredients: an ObjectId is never issued twice
  Labor,        \* the Labor collection: id -> labor document
  laborCall,    \* the last call of calculateCostPerPie on its own: arguments and result
  User,         \* the User collection: email -> user document
  inflight      \* the requests being handled: request -> where its handler stands

vars == <<Ingredient, Recipe, written, response, doc, unrounded, calls, firstOut, before,
          retired, Labor, laborCall, User, inflight>>

(***************************************************************************)
(* Bounds and input sets                                                   *)
(***************************************************************************)
MaxIngredientLines == 2
MaxLaborLines == 2

IngIds == {"ing1", "ing2"}
IngredientLineSet == { [ingredient |-> "ing1", quantity |-> 200],
                       [ingredient |-> "ing1", quantity |-> 19] }
CostSet == {184, 1500}
LaborInputSet == { [workers |-> 1, hoursPerWorker |-> 250],
                   [workers |-> 3, hoursPerWorker |-> 25] }
RateSet == {12500, 25000}
BatchSet == {0, 3, 10, 20}
MarkupSet == {0, 100, 1000}

ListsUpTo(S, n) == UNION { [1..k -> S] : k \in 1..n }

\* prior contents of calculatedCosts / sellingPrice: schema defaults, or leftovers
ZeroCosts == [totalIngredientCost |-> 0, totalLaborCost |-> 0,
              totalBatchCost |-> 0, costPerPie |-> 0]
StaleCosts == [totalIngredientCost |-> 123, totalLaborCost |-> 8,
               totalBatchCost |-> 9999, costPerPie |-> 31]

(***************************************************************************)
(* Natural numbers of any size: limbs of 15 bits, least significant first, *)
(* the last limb not zero; zero is the empty sequence                      *)
(***************************************************************************)
LimbBase == 2 ^ 15

RECURSIVE BigNorm(_)
BigNorm(a) == IF a = <<>> THEN a
              ELSE IF a[Len(a)] = 0 THEN BigNorm(SubSeq(a, 1, Len(a) - 1)) ELSE a

RECURSIVE BigFromInt(_)
BigFromInt(n) == IF n = 0 THEN <<>> ELSE <<n % LimbBase>> \o BigFromInt(n \div LimbBase)

RECURSIVE BigToInt(_)
BigToInt(a) == IF a = <<>> THEN 0 ELSE Head(a) + LimbBase * BigToInt(Tail(a))

Limb(a, i) == IF i >= 1 /\ i <= Len(a) THEN a[i] ELSE 0

RECURSIVE BigAddCarry(_, _, _)
BigAddCarry(a, b, c) ==
  IF a = <<>> /\ b = <<>> THEN (IF c = 0 THEN <<>> ELSE <<c>>)
  ELSE LET s == Limb(a, 1) + Limb(b, 1) + c
       IN <<s % LimbBase>> \o BigAddCarry(IF a = <<>> THEN a ELSE Tail(a),
                                          IF b = <<>> THEN b ELSE Tail(b),
                                          s \div LimbBase)

BigAdd(a, b) == BigAddCarry(a, b, 0)

\* -1, 0 or 1 as a is below, equal to or above b
RECURSIVE BigCmp(_, _)
BigCmp(a, b) ==
  IF Len(a) # Len(b) THEN (IF Len(a) < Len(b) THEN -1 ELSE 1)
  ELSE IF a = <<>> THEN 0
  ELSE IF a[Len(a)] # b[Len(b)] THEN (IF a[Len(a)] < b[Len(b)] THEN -1 ELSE 1)
  ELSE BigCmp(BigNorm(SubSeq(a, 1, Len(a) - 1)), BigNorm(SubSeq(b, 1, Len(b) - 1)))

RECURSIVE BigSubBorrow(_, _, _)
BigSubBorrow(a, b, c) ==
  IF a = <<>> THEN <<>>
  ELSE LET d == Head(a) - Limb(b, 1) - c
       IN <<d % LimbBase>> \o BigSubBorrow(Tail(a), IF b = <<>> THEN b ELSE Tail(b),
                                           IF d < 0 THEN 1 ELSE 0)

\* a - b for a >= b
BigSub(a, b) == BigNorm(BigSubBorrow(a, b, 0))

RECURSIVE BigMulSmallCarry(_, _, _)
BigMulSmallCarry(a, k, c) ==
  IF a = <<>> THEN (IF c = 0 THEN <<>> ELSE <<c>>)
  ELSE LET p == Head(a) * k + c
       IN <<p % LimbBase>> \o BigMulSmallCarry(Tail(a), k, p \div LimbBase)

\* a * k for 0 <= k < 2^15
BigMulSmall(a, k) == IF k = 0 THEN <<>> ELSE BigMulSmallCarry(a, k, 0)

RECURSIVE BigMul(_, _)
BigMul(a, b) ==
  IF a = <<>> \/ b = <<>> THEN <<>>
  ELSE LET rest == BigMul(a, Tail(b))
       IN BigAdd(BigMulSmall(a, Head(b)), IF rest = <<>> THEN rest ELSE <<0>> \o rest)

\* quotient and remainder of a by d, 1 <= d < 2^15, from the most significant limb down
RECURSIVE BigDivSmallFrom(_, _, _)
BigDivSmallFrom(a, d, i) ==
  IF i > Len(a) THEN [q |-> <<>>, r |-> 0]
  ELSE LET hi  == BigDivSmallFrom(a, d, i + 1)
           cur == hi.r * LimbBase + a[i]
       IN [q |-> <<cur \div d>> \o hi.q, r |-> cur % d]

BigDivSmall(a, d) ==
  LET x == BigDivSmallFrom(a, d, 1) IN [q |-> BigNorm(x.q), r |-> x.r]

RECURSIVE IntBitLen(_)
IntBitLen(n) == IF n = 0 THEN 0 ELSE 1 + IntBitLen(n \div 2)

BigBitLen(a) == IF a = <<>> THEN 0 ELSE 15 * (Len(a) - 1) + IntBitLen(a[Len(a)])

\* a * 2^s
BigShl(a, s) ==
  IF a = <<>> THEN a
  ELSE [i \in 1..(s \div 15) |-> 0] \o BigMulSmall(a, 2 ^ (s % 15))

\* floor(a / 2^s)
BigShr(a, s) ==
  LET w == s \div 15
      b == s % 15
      n == Len(a) - w
  IN IF n <= 0 THEN <<>>
     ELSE BigNorm([i \in 1..n |->
                     (a[i + w] \div 2 ^ b) + (Limb(a, i + w + 1) % 2 ^ b) * 2 ^ (15 - b)])

\* bit k of a, counted from 0
BigBit(a, k) == (Limb(a, k \div 15 + 1) \div 2 ^ (k % 15)) % 2

\* the bits 0..k-1 of a are all zero
BigLowZero(a, k) ==
  /\ \A i \in 1..(k \div 15) : Limb(a, i) = 0
  /\ Limb(a, k \div 15 + 1) % 2 ^ (k % 15) = 0

\* a mod 2^s against 2^(s-1), s >= 1: -1 below, 0 equal, 1 above
HalfCmp(a, s) ==
  IF BigBit(a, s - 1) = 0 THEN -1
  ELSE IF BigLowZero(a, s - 1) THEN 0 ELSE 1

RECURSIVE TrailingZeros(_)
TrailingZeros(a) ==
  IF a = <<>> THEN 0
  ELSE IF Head(a) = 0 THEN 15 + TrailingZeros(Tail(a))
  ELSE CHOOSE k \in 0..14 : Head(a) % 2 ^ (k + 1) = 2 ^ k

(***************************************************************************)
(* JavaScript numbers                                                      *)
(***************************************************************************)
\* m * 2^e with m made odd
Canon(m, e) ==
  IF m = <<>> THEN [m |-> <<>>, e |-> 0, neg |-> FALSE]
  ELSE LET z == TrailingZeros(m) IN [m |-> BigShr(m, z), e |-> e + z, neg |-> FALSE]

\* x with the sign given
Signed(neg, x) == IF x.m = <<>> THEN x ELSE [x EXCEPT !.neg = neg]

\* the double nearest to n * 2^e, a tie going to the even one; with sticky, n stands
\* for a number above n and below n + 1
RoundToDouble(n, e, sticky) ==
  LET len == BigBitLen(n)
  IN IF len <= 53 THEN Canon(n, e)
     ELSE LET s  == len - 53
              q  == BigShr(n, s)
              h  == HalfCmp(n, s)
              up == h = 1 \/ (h = 0 /\ (sticky \/ Head(q) % 2 = 1))
          IN Canon(IF up THEN BigAdd(q, <<1>>) ELSE q, e + s)

\* a whole number -2^31 < n < 2^31 as a double
FromInt(n) == IF n < 0 THEN Signed(TRUE, Canon(BigFromInt(-n), 0)) ELSE Canon(BigFromInt(n), 0)

\* x * y
Mul(x, y) == Signed(x.neg # y.neg, RoundToDouble(BigMul(x.m, y.m), x.e + y.e, FALSE))

\* x + y
Add(x, y) ==
  IF x.m = <<>> THEN y
  ELSE IF y.m = <<>> THEN x
  ELSE LET lo == IF x.e <= y.e THEN x ELSE y
           hi == IF x.e <= y.e THEN y ELSE x
           a  == BigShl(hi.m, hi.e - lo.e)
       IN IF x.neg = y.neg
          THEN Signed(x.neg, RoundToDouble(BigAdd(a, lo.m), lo.e, FALSE))
          ELSE IF BigCmp(a, lo.m) >= 0
               THEN Signed(hi.neg, RoundToDouble(BigSub(a, lo.m), lo.e, FALSE))
               ELSE Signed(lo.neg, RoundToDouble(BigSub(lo.m, a), lo.e, FALSE))

\* x / d for a whole number 1 <= d < 2^15
DivInt(x, d) ==
  IF x.m = <<>> THEN x
  ELSE LET qr == BigDivSmall(BigShl(x.m, 75), d)
       IN Signed(x.neg, RoundToDouble(qr.q, x.e - 75, qr.r # 0))

\* the whole part of |x|, below 2^31
Whole(x) ==
  IF x.e >= 0 THEN BigToInt(BigShl(x.m, x.e)) ELSE BigToInt(BigShr(x.m, -x.e))

\* Math.floor(x), a whole number
MathFloor(x) ==
  IF x.neg THEN -(Whole(x) + (IF x.e < 0 /\ ~BigLowZero(x.m, -x.e) THEN 1 ELSE 0))
  ELSE Whole(x)

\* Math.round(x): the nearest whole number, a tie going up (towards +Infinity)
MathRound(x) ==
  IF x.neg THEN -(Whole(x) + (IF x.e < 0 /\ HalfCmp(x.m, -x.e) > 0 THEN 1 ELSE 0))
  ELSE Whole(x) + (IF x.e < 0 /\ HalfCmp(x.m, -x.e) >= 0 THEN 1 ELSE 0)

\* the decimal n / d of a request or a stored document, as the number JSON.parse
\* or the driver gives: the nearest double
Number(n, d) == DivInt(FromInt(n), d)

(***************************************************************************)
(* The calculator: methods of the Recipe model                             *)
(***************************************************************************)
\* a bug: totalCost = instead of totalCost +=
RECURSIVE SumIngredientLines_Overwriting(_, _, _)
SumIngredientLines_Overwriting(items, cat, totalCost) ==
  IF items = <<>> THEN totalCost
  ELSE SumIngredientLines_Overwriting(Tail(items), cat,
         Mul(Number(Head(items).quantity, 100),
             Number(cat[Head(items).ingredient].costPerUnit, 1000)))

\* the loop of calculateIngredientCost: totalCost += item.quantity * costPerUnit
RECURSIVE SumIngredientLines(_, _, _)
SumIngredientLines(items, cat, totalCost) ==
  IF items = <<>> THEN totalCost
  ELSE SumIngredientLines(Tail(items), cat,
         Add(totalCost, Mul(Number(Head(items).quantity, 100),
                            Number(cat[Head(items).ingredient].costPerUnit, 1000))))

\* the loop of calculateLaborCost: totalLaborHours += input.workers * input.hoursPerWorker
RECURSIVE SumLaborHours(_, _)
SumLaborHours(inputs, totalLaborHours) ==
  IF inputs = <<>> THEN totalLaborHours
  ELSE SumLaborHours(Tail(inputs),
         Add(totalLaborHours, Mul(FromInt(Head(inputs).workers),
                                  Number(Head(inputs).hoursPerWorker, 100))))

\* Math.round(totalCost * 10000) / 10000
Round4(x) == DivInt(FromInt(MathRound(Mul(x, FromInt(10000)))), 10000)

\* a bug: truncating to 2 decimals where the code rounds
Round2_Truncate(x) == MathFloor(Mul(x, FromInt(100)))

\* Math.round(v * 100) / 100, as the whole number k of hundredths
Round2(x) == MathRound(Mul(x, FromInt(100)))

\* populate() leaves null where the reference does not resolve
Unresolved(this, cat) ==
  \E i \in 1..Len(this.ingredients) : this.ingredients[i].ingredient \notin DOMAIN cat

\* the line at which the loop of calculateIngredientCost throws: the first one whose
\* reference did not resolve
FirstUnresolved(this, cat) ==
  CHOOSE i \in 1..Len(this.ingredients) :
     /\ this.ingredients[i].ingredient \notin DOMAIN cat
     /\ \A j \in 1..(i - 1) : this.ingredients[j].ingredient \in DOMAIN cat

\* the message of the ErrorResponse thrown there, in its two parts: the text and
\* item.ingredient?._id || "[provided ID is missing/invalid]", item.ingredient being
\* what populate() put in the place of the reference
IngredientErrorMessage(this, cat) ==
  LET item == this.ingredients[FirstUnresolved(this, cat)]
  IN <<"Invalid or missing data for ingredient ID: ",
       IF item.ingredient \in DOMAIN cat THEN item.ingredient
       ELSE "[provided ID is missing/invalid]">>

calculateIngredientCost(this, cat) ==
  Round4(SumIngredientLines(this.ingredients, cat, FromInt(0)))

calculateLaborCost(this) ==
  Round4(Mul(SumLaborHours(this.laborInputs, FromInt(0)),
             Number(this.laborHourlyRate, 1000)))

\* a bug: the batch cost left without the labor cost
TotalBatchCost_WithoutLabor(this, ing, lab) == ing

\* a bug: the batch cost added to what the field already held
TotalBatchCost_Accumulating(this, ing, lab) ==
  Add(Number(this.calculatedCosts.totalBatchCost, 100), Add(ing, lab))

\* lines 280-282: (totalIngredientCost || 0) + (totalLaborCost || 0)
TotalBatchCost(this, ing, lab) == Add(ing, lab)

\* a bug: the batch cost not divided over the batch
CostPerPie_Undivided(this, batch) == batch

\* a bug: the guard leaving the batch cost as the cost per pie
CostPerPie_GuardKeepsBatch(this, batch) ==
  IF this.batchSize > 0 THEN DivInt(batch, this.batchSize) ELSE batch

\* lines 284-289
CostPerPie(this, batch) ==
  IF this.batchSize > 0 THEN DivInt(batch, this.batchSize) ELSE FromInt(0)

\* a bug: the markup applied to the cost per pie already rounded to 2 decimals
SellingPrice_FromRoundedCost(this, cpp) ==
  Mul(Number(Round2(cpp), 100),
      Add(FromInt(1), DivInt(Number(this.markupPercentage, 100), 100)))

\* a bug: the markup left out
SellingPrice_MarkupIgnored(this, cpp) == cpp

\* a bug: the markup taken off the cost instead of added to it
SellingPrice_MarkupSubtracted(this, cpp) ==
  Mul(cpp, Add(FromInt(1),
               Signed(TRUE, DivInt(Number(this.markupPercentage, 100), 100))))

\* lines 292-293: costPerPie * (1 + markupPercentage / 100)
SellingPrice(this, cpp) ==
  LET markupMultiplier == Add(FromInt(1), DivInt(Number(this.markupPercentage, 100), 100))
  IN Mul(cpp, markupMultiplier)

\* lines 277-293: the figures as the fields hold them before the rounding pass
UnroundedFigures(this, cat) ==
  LET ing   == calculateIngredientCost(this, cat)
      lab   == calculateLaborCost(this)
      batch == TotalBatchCost(this, ing, lab)
      cpp   == CostPerPie(this, batch)
  IN [totalIngredientCost |-> ing,
      totalLaborCost      |-> lab,
      totalBatchCost      |-> batch,
      costPerPie          |-> cpp,
      sellingPrice        |-> SellingPrice(this, cpp)]

\* lines 295-304: the rounding pass
RoundingPass(this, u) ==
  [this EXCEPT
     !.calculatedCosts = [totalIngredientCost |-> Round2(u.totalIngredientCost),
                          totalLaborCost      |-> Round2(u.totalLaborCost),
                          totalBatchCost      |-> Round2(u.totalBatchCost),
                          costPerPie          |-> Round2(u.costPerPie)],
     !.sellingPrice = Round2(u.sellingPrice)]

updateCalculatedCostsAndPrice(this, cat) == RoundingPass(this, UnroundedFigures(this, cat))

Outputs(r) == [calculatedCosts |-> r.calculatedCosts, sellingPrice |-> r.sellingPrice]

(***************************************************************************)
(* The calculator on its own: a document in memory, called repeatedly      *)
(***************************************************************************)
NoFigures == [totalIngredientCost |-> FromInt(0), totalLaborCost |-> FromInt(0),
              totalBatchCost |-> FromInt(0), costPerPie |-> FromInt(0),
              sellingPrice |-> FromInt(0)]

NoDoc == [pieName |-> "", variant |-> "", batchSize |-> 0,
          ingredients |-> <<>>, laborInputs |-> <<>>, laborHourlyRate |-> 0,
          markupPercentage |-> 0, calculatedCosts |-> ZeroCosts, sellingPrice |-> 0]

\* a message is held as the sequence of its parts
NoResponse == [op |-> "", status |-> 0, message |-> <<>>]

\* the requests that can be under way at once, none of them started
Requests == {"A", "B"}

NoRequests == [r \in Requests |-> [pc |-> "none"]]

NoCall == [called |-> FALSE, costPerHour |-> 0, minutesPerPie |-> 0, result |-> FromInt(0)]

\* the Ingredient collection: empty, or ing1 at either cost, or ing1 at a cost below
\* zero, which a write past the validators of the Ingredient routes leaves behind
CalcCatalogs ==
  { [i \in S |-> [costPerUnit |-> c]] : S \in {{}, {"ing1"}}, c \in CostSet \cup {-1500} }

InitCalc ==
  /\ Ingredient \in CalcCatalogs
  /\ Recipe = << >>
  /\ written = << >>
  /\ response = NoResponse
  /\ \E ings \in ListsUpTo(IngredientLineSet, MaxIngredientLines),
        labs \in ListsUpTo(LaborInputSet, MaxLaborLines),
        rate \in RateSet, b \in BatchSet, m \in MarkupSet,
        prior \in {ZeroCosts, StaleCosts} :
       doc = [pieName |-> "Test Recipe Pie", variant |-> "Standard",
              batchSize |-> b, ingredients |-> ings, laborInputs |-> labs,
              laborHourlyRate |-> rate, markupPercentage |-> m,
              calculatedCosts |-> prior,
              sellingPrice |-> prior.costPerPie]
  /\ unrounded = NoFigures
  /\ calls = 0
  /\ firstOut = Outputs(NoDoc)
  /\ before = Outputs(doc)
  /\ retired = {}
  /\ Labor = << >>
  /\ laborCall = NoCall
  /\ User = << >>
  /\ inflight = NoRequests

\* await recipe.updateCalculatedCostsAndPrice(), the references resolving
Calculate ==
  /\ calls < 2
  /\ ~Unresolved(doc, Ingredient)
  /\ LET u == UnroundedFigures(doc, Ingredient)
     IN /\ unrounded' = u
        /\ doc' = RoundingPass(doc, u)
  /\ calls' = calls + 1
  /\ firstOut' = IF calls = 0 THEN Outputs(doc') ELSE firstOut
  /\ response' = [op |-> "calculate", status |-> 200, message |-> <<>>]
  /\ UNCHANGED <<Ingredient, Recipe, written, before, retired, Labor, laborCall, User,
                 inflight>>

\* the same call, a reference not resolving: the method throws before any assignment
CalculateThrows ==
  /\ calls < 2
  /\ Unresolved(doc, Ingredient)
  /\ calls' = calls + 1
  /\ response' = [op |-> "calculate", status |-> 400,
                  message |-> IngredientErrorMessage(doc, Ingredient)]
  /\ UNCHANGED <<Ingredient, Recipe, written, doc, unrounded, firstOut, before, retired,
                 Labor, laborCall, User, inflight>>

NextCalc == Calculate \/ CalculateThrows

SpecCalc == InitCalc /\ [][NextCalc]_vars

(***************************************************************************)
(* The API: requests handled one at a time                                 *)
(***************************************************************************)
RecipeIds == {"rec1", "rec2"}

Has(body, f) == f \in DOMAIN body

\* a complete request body, for the bodies below that differ from it in one field
BaseBody ==
  [pieName |-> "Steak", batchSize |-> 10,
   ingredients |-> <<[ingredient |-> "ing1", quantity |-> 200]>>,
   laborInputs |-> <<[workers |-> 1, hoursPerWorker |-> 250]>>,
   laborHourlyRate |-> 25000, markupPercentage |-> 1000]

Without(body, f) == [g \in DOMAIN body \ {f} |-> body[g]]

\* bodies the validation rules of the recipe routes turn down
RejectedBodies ==
  { [BaseBody EXCEPT !.ingredients = <<[ingredient |-> "ing1", quantity |-> -200]>>],
    [BaseBody EXCEPT !.laborHourlyRate = -25000],
    [BaseBody EXCEPT !.markupPercentage = -1000],
    [BaseBody EXCEPT !.batchSize = -1],
    [BaseBody EXCEPT !.ingredients = <<>>],
    [BaseBody EXCEPT !.laborInputs = <<>>],
    Without(BaseBody, "ingredients"),
    Without(BaseBody, "laborInputs") }

RejectedPayloads ==
  { [ingredients |-> <<[ingredient |-> "ing1", quantity |-> -200]>>],
    [laborHourlyRate |-> -25000],
    [markupPercentage |-> -1000],
    [batchSize |-> -1],
    [ingredients |-> <<>>],
    [laborInputs |-> <<>>, laborHourlyRate |-> 30000] }

\* request bodies of POST /recipes
CreateBodies ==
  RejectedBodies \cup
  { [pieName |-> "Steak", batchSize |-> 10,
     ingredients |-> <<[ingredient |-> "ing1", quantity |-> 200]>>,
     laborInputs |-> <<[workers |-> 1, hoursPerWorker |-> 250]>>,
     laborHourlyRate |-> 25000, markupPercentage |-> 1000],
    [pieName |-> "Chicken", variant |-> "Mini", batchSize |-> 3,
     ingredients |-> <<[ingredient |-> "ing1", quantity |-> 5],
                       [ingredient |-> "ing2", quantity |-> 200]>>,
     laborInputs |-> <<[workers |-> 1, hoursPerWorker |-> 25]>>,
     laborHourlyRate |-> 12500, markupPercentage |-> 2000,
     calculatedCosts |-> StaleCosts, sellingPrice |-> 31],
    [pieName |-> "Chicken", batchSize |-> 0,
     ingredients |-> <<[ingredient |-> "ing1", quantity |-> 200]>>,
     laborInputs |-> <<[workers |-> 1, hoursPerWorker |-> 250]>>,
     laborHourlyRate |-> 25000, markupPercentage |-> 1000] }

\* request bodies of PUT /recipes/:id
UpdatePayloads ==
  RejectedPayloads \cup
  { << >>,
    [markupPercentage |-> 3000],
    [batchSize |-> 20],
    [batchSize |-> 0],
    [ingredients |-> <<[ingredient |-> "ing2", quantity |-> 200]>>],
    [laborInputs |-> <<[workers |-> 2, hoursPerWorker |-> 150]>>,
     laborHourlyRate |-> 30000],
    [calculatedCosts |-> StaleCosts, sellingPrice |-> 31] }

(***************************************************************************)
(* The workbooks of scripts/migrateData.js.  A workbook is the rows of the *)
(* sheet "Pie Ingredients" (name, cost), the rows of "ManHours Pies" (pie  *)
(* name -> cost cell) and one recipe column of "Pies".  An ingredient's    *)
(* name stands for its _id.                                                *)
(***************************************************************************)
BaseColumn ==
  [basePieName |-> "Steak", variant |-> "Standard", batchSize |-> 10,
   markup |-> [kind |-> "text", percent |-> 10],
   ingredientRows |-> <<[name |-> "ing1", quantity |-> 200]>>,
   laborRows |-> <<[workers |-> 1, hoursPerWorker |-> 250]>>]

BaseWorkbook ==
  [ingredientsData |-> <<[name |-> "ing1", costPerUnit |-> 1500]>>,
   laborData |-> [p \in {"Steak"} |-> 25000],
   column |-> BaseColumn]

Workbooks ==
  { BaseWorkbook,
    [BaseWorkbook EXCEPT !.column.markup = [kind |-> "none"]],
    [BaseWorkbook EXCEPT !.column.markup = [kind |-> "number", value |-> 10]],
    [BaseWorkbook EXCEPT !.ingredientsData = <<[name |-> "ing1", costPerUnit |-> 0]>>],
    [BaseWorkbook EXCEPT !.column.laborRows = <<[workers |-> 1, hoursPerWorker |-> 0]>>],
    [BaseWorkbook EXCEPT !.column.batchSize = 0],
    [BaseWorkbook EXCEPT !.laborData = [p \in {"Steak"} |-> 0]],
    [BaseWorkbook EXCEPT !.column.variant = "Mini", !.column.markup = [kind |-> "none"]] }

\* lines 99-130: the rows of "Pie Ingredients" with a name and a cost above zero
CostedRows(wb) ==
  { wb.ingredientsData[i].name : i \in { j \in 1..Len(wb.ingredientsData) :
                                          wb.ingredientsData[j].costPerUnit > 0 } }

\* the cost of the last row of the sheet with this name
LastCost(rows, name) ==
  LET last == CHOOSE i \in 1..Len(rows) :
                 /\ rows[i].name = name /\ rows[i].costPerUnit > 0
                 /\ \A j \in (i + 1)..Len(rows) :
                       ~(rows[j].name = name /\ rows[j].costPerUnit > 0)
  IN rows[last].costPerUnit

\* lines 115-116: ingredientMap, name -> _id, of the rows upserted
ingredientMap(wb) == CostedRows(wb)

\* lines 144-158: laborRateMap, the pie names with a rate above zero
laborRateMap(wb) == { p \in DOMAIN wb.laborData : wb.laborData[p] > 0 }

\* lines 381-411: the text "X%" gives parseNumber("X") / 100, X / 100 being X
\* hundredths; a number is taken as it is; anything else gives 0
MarkupOfCell(cell) ==
  CASE cell.kind = "text" -> cell.percent
    [] cell.kind = "number" -> cell.value
    [] OTHER -> 0

\* lines 420-509: a row with a name and a quantity above zero whose name is in
\* ingredientMap gives a line; any other row is passed over
RECURSIVE ExtractIngredients(_, _)
ExtractIngredients(rows, map) ==
  IF rows = <<>> THEN <<>>
  ELSE (IF Head(rows).quantity > 0 /\ Head(rows).name \in map
        THEN <<[ingredient |-> Head(rows).name, quantity |-> Head(rows).quantity]>>
        ELSE <<>>) \o ExtractIngredients(Tail(rows), map)

\* lines 514-562: a row with workers and hours above zero gives a labor input
RECURSIVE ExtractLaborInputs(_)
ExtractLaborInputs(rows) ==
  IF rows = <<>> THEN <<>>
  ELSE (IF Head(rows).workers > 0 /\ Head(rows).hoursPerWorker > 0
        THEN <<Head(rows)>> ELSE <<>>) \o ExtractLaborInputs(Tail(rows))

\* lines 353-361 and 573-580: the column is skipped
ColumnSkipped(wb) ==
  \/ wb.column.batchSize <= 0
  \/ wb.column.basePieName \notin laborRateMap(wb)

\* lines 588-596: recipeData
recipeData(wb) ==
  [pieName |-> wb.column.basePieName,
   variant |-> wb.column.variant,
   batchSize |-> wb.column.batchSize,
   ingredients |-> ExtractIngredients(wb.column.ingredientRows, ingredientMap(wb)),
   laborInputs |-> ExtractLaborInputs(wb.column.laborRows),
   laborHourlyRate |-> wb.laborData[wb.column.basePieName],
   markupPercentage |-> MarkupOfCell(wb.column.markup)]

\* the values the workbooks give to a field of a recipe
ImportValues(f) == { recipeData(wb)[f] : wb \in Workbooks }

\* requests of POST /ingredients and PUT /ingredients/:id: the id and the body
IngredientRequests ==
  { [id |-> "ing1", body |-> [costPerUnit |-> 1500]],
    [id |-> "ing1", body |-> [costPerUnit |-> 99]],
    [id |-> "ing2", body |-> [costPerUnit |-> 1500]] }


\* the values the requests give to a field of a recipe
RequestValues(f) == { b[f] : b \in { x \in CreateBodies \cup UpdatePayloads : Has(x, f) } }

\* the contents the requests can give to the Ingredient collection
RequestCatalogs ==
  { c \in UNION { [S -> { r.body : r \in IngredientRequests }] : S \in SUBSET IngIds } :
      \A i \in DOMAIN c : [id |-> i, body |-> c[i]] \in IngredientRequests }

\* the inputs of the calculator that the requests and the workbooks can produce
CostingKeys ==
  { k \in [ingredients : RequestValues("ingredients") \cup ImportValues("ingredients"),
           laborInputs : RequestValues("laborInputs") \cup ImportValues("laborInputs"),
           laborHourlyRate : RequestValues("laborHourlyRate"),
           batchSize : RequestValues("batchSize"),
           markupPercentage : RequestValues("markupPercentage")
                                 \cup ImportValues("markupPercentage"),
           cat : RequestCatalogs] :
      /\ ~Unresolved(k, k.cat)
      /\ DOMAIN k.cat = { k.ingredients[j].ingredient : j \in 1..Len(k.ingredients) }
      /\ k.batchSize > 0 /\ k.laborHourlyRate >= 0 /\ k.markupPercentage >= 0
      /\ \A i \in 1..Len(k.ingredients) : k.ingredients[i].quantity > 0 }

KeyOf(this, cat) ==
  [ingredients |-> this.ingredients, laborInputs |-> this.laborInputs,
   laborHourlyRate |-> this.laborHourlyRate, batchSize |-> this.batchSize,
   markupPercentage |-> this.markupPercentage,
   cat |-> [i \in { this.ingredients[j].ingredient : j \in 1..Len(this.ingredients) }
                     \cap DOMAIN cat |-> [costPerUnit |-> cat[i].costPerUnit]]]

\* updateCalculatedCostsAndPrice on each of these inputs, held as a table (@@ makes
\* TLC evaluate the function once): the method reads the five input fields and the
\* unit costs, and nothing else
CostingTable ==
  [k \in CostingKeys |->
     Outputs(updateCalculatedCostsAndPrice(
        [NoDoc EXCEPT !.ingredients = k.ingredients, !.laborInputs = k.laborInputs,
                      !.laborHourlyRate = k.laborHourlyRate, !.batchSize = k.batchSize,
                      !.markupPercentage = k.markupPercentage], k.cat))] @@ << >>

\* await recipe.updateCalculatedCostsAndPrice() in a handler
Costed(this, cat) ==
  IF KeyOf(this, cat) \in CostingKeys
  THEN [this EXCEPT !.calculatedCosts = CostingTable[KeyOf(this, cat)].calculatedCosts,
                    !.sellingPrice = CostingTable[KeyOf(this, cat)].sellingPrice]
  ELSE updateCalculatedCostsAndPrice(this, cat)

\* a bug: the rule on ingredients.*.quantity left out
FieldValid_QuantityUnchecked(body, f) ==
  CASE f = "pieName"          -> body[f] # ""
    [] f = "batchSize"        -> body[f] > 0
    [] f = "ingredients"      -> Len(body[f]) >= 1
    [] f = "laborInputs"      -> /\ Len(body[f]) >= 1
                                 /\ \A i \in 1..Len(body[f]) :
                                       /\ body[f][i].workers > 0
                                       /\ body[f][i].hoursPerWorker >= 0
    [] f = "laborHourlyRate"  -> body[f] >= 0
    [] f = "markupPercentage" -> body[f] >= 0
    [] OTHER                  -> TRUE

\* the express-validator rules shared by the create and update routes, a field at a time
FieldValid(body, f) ==
  CASE f = "pieName"          -> body[f] # ""
    [] f = "batchSize"        -> body[f] > 0
    [] f = "ingredients"      -> /\ Len(body[f]) >= 1
                                 /\ \A i \in 1..Len(body[f]) : body[f][i].quantity > 0
    [] f = "laborInputs"      -> /\ Len(body[f]) >= 1
                                 /\ \A i \in 1..Len(body[f]) :
                                       /\ body[f][i].workers > 0
                                       /\ body[f][i].hoursPerWorker >= 0
    [] f = "laborHourlyRate"  -> body[f] >= 0
    [] f = "markupPercentage" -> body[f] >= 0
    [] OTHER                  -> TRUE

RequiredFields == {"pieName", "batchSize", "ingredients", "laborInputs",
                   "laborHourlyRate", "markupPercentage"}

createRecipeValidationRules(body) ==
  \A f \in RequiredFields : Has(body, f) /\ FieldValid(body, f)

updateRecipeValidationRules(body) ==
  \A f \in DOMAIN body : FieldValid(body, f)

\* new Recipe({...}): only the named fields are taken from the body
NewRecipe(body) ==
  [pieName |-> body.pieName,
   variant |-> IF Has(body, "variant") THEN body.variant ELSE "Standard",
   batchSize |-> body.batchSize,
   ingredients |-> body.ingredients,
   laborInputs |-> body.laborInputs,
   laborHourlyRate |-> body.laborHourlyRate,
   markupPercentage |-> body.markupPercentage,
   calculatedCosts |-> ZeroCosts,
   sellingPrice |-> 0]

\* Object.assign(recipe, updateData)
ObjectAssign(recipe, updateData) ==
  [f \in DOMAIN recipe |-> IF Has(updateData, f) THEN updateData[f] ELSE recipe[f]]

\* a bug: the unique indexes left out
DuplicateKey_NoIndex(coll, id, r) == FALSE

\* the unique indexes of the Recipe schema: pieName, and (pieName, variant)
DuplicateKey(coll, id, r) ==
  \E other \in DOMAIN coll \ {id} :
     \/ coll[other].pieName = r.pieName
     \/ coll[other].pieName = r.pieName /\ coll[other].variant = r.variant

\* a bug: the costs left as they were, the recalculation skipped
RecalculatedUpdate_NoRecalculation(recipe, updateData, cat) ==
  ObjectAssign(recipe, updateData)

\* a bug: recalculating only when a cost input is in the payload
RecalculatedUpdate_OnlyOnCostInputs(recipe, updateData, cat) ==
  IF \E f \in {"ingredients", "laborInputs", "laborHourlyRate", "batchSize"} :
        Has(updateData, f)
  THEN Costed(ObjectAssign(recipe, updateData), cat)
  ELSE ObjectAssign(recipe, updateData)

\* updateRecipe, lines 117-120: assign, then always recalculate
RecalculatedUpdate(recipe, updateData, cat) ==
  Costed(ObjectAssign(recipe, updateData), cat)

\* a bug: the document saved before the calculation, which then throws
RecipeAfterUpdate_SavedBeforeCalculation(coll, id, updateData, cat) ==
  IF id \notin DOMAIN coll \/ ~updateRecipeValidationRules(updateData) THEN coll
  ELSE IF DuplicateKey(coll, id, ObjectAssign(coll[id], updateData)) THEN coll
  ELSE IF Unresolved(ObjectAssign(coll[id], updateData), cat)
       THEN [coll EXCEPT ![id] = ObjectAssign(coll[id], updateData)]
  ELSE [coll EXCEPT ![id] = RecalculatedUpdate(coll[id], updateData, cat)]

\* the Recipe collection after PUT /recipes/:id
RecipeAfterUpdate(coll, id, updateData, cat) ==
  IF id \notin DOMAIN coll \/ ~updateRecipeValidationRules(updateData) THEN coll
  ELSE IF Unresolved(ObjectAssign(coll[id], updateData), cat) THEN coll
  ELSE IF DuplicateKey(coll, id, ObjectAssign(coll[id], updateData)) THEN coll
  ELSE [coll EXCEPT ![id] = RecalculatedUpdate(coll[id], updateData, cat)]

\* what the handler and the error middleware answer
OutcomeOfUpdate(coll, id, updateData, cat) ==
  IF ~updateRecipeValidationRules(updateData) THEN "validation"
  ELSE IF id \notin DOMAIN coll THEN "notFound"
  ELSE IF Unresolved(ObjectAssign(coll[id], updateData), cat) THEN "ingredient"
  ELSE IF DuplicateKey(coll, id, ObjectAssign(coll[id], updateData)) THEN "duplicateKey"
  ELSE "ok"

\* a bug: the document saved before the calculation, which then throws
RecipeAfterCreate_SavedBeforeCalculation(coll, id, body, cat) ==
  IF ~createRecipeValidationRules(body) THEN coll
  ELSE IF DuplicateKey(coll, id, NewRecipe(body)) THEN coll
  ELSE IF Unresolved(NewRecipe(body), cat)
       THEN [x \in DOMAIN coll \cup {id} |->
               IF x = id THEN NewRecipe(body) ELSE coll[x]]
  ELSE [x \in DOMAIN coll \cup {id} |->
          IF x = id THEN Costed(NewRecipe(body), cat)
                    ELSE coll[x]]

\* the Recipe collection after POST /recipes, id being the new document's _id
RecipeAfterCreate(coll, id, body, cat) ==
  IF ~createRecipeValidationRules(body) THEN coll
  ELSE IF Unresolved(NewRecipe(body), cat) THEN coll
  ELSE IF DuplicateKey(coll, id, NewRecipe(body)) THEN coll
  ELSE [x \in DOMAIN coll \cup {id} |->
          IF x = id THEN Costed(NewRecipe(body), cat)
                    ELSE coll[x]]

OutcomeOfCreate(coll, id, body, cat) ==
  IF ~createRecipeValidationRules(body) THEN "validation"
  ELSE IF Unresolved(NewRecipe(body), cat) THEN "ingredient"
  ELSE IF DuplicateKey(coll, id, NewRecipe(body)) THEN "duplicateKey"
  ELSE "created"

\* errorHandler: an ErrorResponse keeps its statusCode, any other error is a 500;
\* recipe is the document the handler was working on
Answer(op, outcome, recipe) ==
  [op |-> op,
   status |-> CASE outcome = "ok" -> 200
                [] outcome = "created" -> 201
                [] outcome = "validation" -> 400
                [] outcome = "ingredient" -> 400
                [] outcome = "notFound" -> 404
                [] outcome = "duplicateKey" -> 500,
   message |-> CASE outcome = "validation" -> <<"Validation Error">>
                 [] outcome = "ingredient" -> IngredientErrorMessage(recipe, Ingredient)
                 [] outcome = "notFound" -> <<"not found">>
                 [] outcome = "duplicateKey" -> <<"Something went wrong!">>
                 [] OTHER -> <<>>]

\* history: the catalog a recipe was last written with
Referenced(r) == { r.ingredients[i].ingredient : i \in 1..Len(r.ingredients) }

Written(coll, id, outcome) ==
  IF outcome \in {"ok", "created"}
  THEN [x \in DOMAIN coll |->
          IF x = id THEN [i \in Referenced(coll[id]) |-> Ingredient[i]] ELSE written[x]]
  ELSE written

CalcIdle == UNCHANGED <<doc, unrounded, calls, firstOut, before>>

AuthIdle == UNCHANGED User

FlightIdle == UNCHANGED inflight

LaborIdle == UNCHANGED <<Labor, laborCall>>

createRecipe(id, body) ==
  /\ id \notin DOMAIN Recipe
  /\ Recipe' = RecipeAfterCreate(Recipe, id, body, Ingredient)
  /\ response' = Answer("createRecipe", OutcomeOfCreate(Recipe, id, body, Ingredient), body)
  /\ written' = Written(Recipe', id, OutcomeOfCreate(Recipe, id, body, Ingredient))
  /\ UNCHANGED <<Ingredient, retired>>
  /\ CalcIdle
  /\ FlightIdle
  /\ AuthIdle
  /\ LaborIdle

updateRecipe(id, updateData) ==
  /\ Recipe' = RecipeAfterUpdate(Recipe, id, updateData, Ingredient)
  /\ response' = Answer("updateRecipe", OutcomeOfUpdate(Recipe, id, updateData, Ingredient),
                         IF id \in DOMAIN Recipe THEN ObjectAssign(Recipe[id], updateData)
                         ELSE NoDoc)
  /\ written' = Written(Recipe', id, OutcomeOfUpdate(Recipe, id, updateData, Ingredient))
  /\ UNCHANGED <<Ingredient, retired>>
  /\ CalcIdle
  /\ FlightIdle
  /\ AuthIdle
  /\ LaborIdle

deleteRecipe(id) ==
  /\ Recipe' = IF id \in DOMAIN Recipe
               THEN [x \in DOMAIN Recipe \ {id} |-> Recipe[x]] ELSE Recipe
  /\ written' = IF id \in DOMAIN Recipe
                THEN [x \in DOMAIN Recipe \ {id} |-> written[x]] ELSE written
  /\ response' = Answer("deleteRecipe", IF id \in DOMAIN Recipe THEN "ok" ELSE "notFound", NoDoc)
  /\ UNCHANGED <<Ingredient, retired>>
  /\ CalcIdle
  /\ FlightIdle
  /\ AuthIdle
  /\ LaborIdle

\* Ingredient.js, lines 4-9: the unique index on the name, which compares names
\* as they are written.  A document without the field stands for an ingredient
\* whose name no other ingredient has.
DuplicateName(cat, id, d) ==
  /\ Has(d, "name")
  /\ \E o \in DOMAIN cat \ {id} : Has(cat[o], "name") /\ cat[o].name = d.name

\* lines 38-50: Ingredient.create(req.body)
createIngredient(id, body) ==
  /\ id \notin DOMAIN Ingredient \cup retired
  /\ Ingredient' = IF DuplicateName(Ingredient, id, body) THEN Ingredient
                   ELSE [x \in DOMAIN Ingredient \cup {id} |->
                           IF x = id THEN body ELSE Ingredient[x]]
  /\ response' = Answer("createIngredient",
                        IF DuplicateName(Ingredient, id, body) THEN "duplicateKey"
                        ELSE "created", NoDoc)
  /\ UNCHANGED <<Recipe, written, retired>>
  /\ CalcIdle
  /\ FlightIdle
  /\ AuthIdle
  /\ LaborIdle

\* a bug: every recipe costed again when an ingredient changes
updateIngredient_Recosting(id, body) ==
  /\ Ingredient' = IF id \in DOMAIN Ingredient
                   THEN [Ingredient EXCEPT ![id] = ObjectAssign(Ingredient[id], body)]
                   ELSE Ingredient
  /\ response' = Answer("updateIngredient", IF id \in DOMAIN Ingredient THEN "ok" ELSE "notFound", NoDoc)
  /\ Recipe' = [x \in DOMAIN Recipe |->
                  IF Unresolved(Recipe[x], Ingredient') THEN Recipe[x]
                  ELSE Costed(Recipe[x], Ingredient')]
  /\ UNCHANGED <<written, retired>>
  /\ CalcIdle
  /\ FlightIdle
  /\ AuthIdle
  /\ LaborIdle

\* lines 55-76: Ingredient.findByIdAndUpdate(id, req.body, {new, runValidators})
updateIngredient(id, body) ==
  /\ Ingredient' = IF /\ id \in DOMAIN Ingredient
                      /\ ~DuplicateName(Ingredient, id, ObjectAssign(Ingredient[id], body))
                   THEN [Ingredient EXCEPT ![id] = ObjectAssign(Ingredient[id], body)]
                   ELSE Ingredient
  /\ response' = Answer("updateIngredient",
                        IF id \notin DOMAIN Ingredient THEN "notFound"
                        ELSE IF DuplicateName(Ingredient, id,
                                              ObjectAssign(Ingredient[id], body))
                             THEN "duplicateKey"
                        ELSE "ok", NoDoc)
  /\ UNCHANGED <<Recipe, written, retired>>
  /\ CalcIdle
  /\ FlightIdle
  /\ AuthIdle
  /\ LaborIdle

deleteIngredient(id) ==
  /\ Ingredient' = IF id \in DOMAIN Ingredient
                   THEN [x \in DOMAIN Ingredient \ {id} |-> Ingredient[x]]
                   ELSE Ingredient
  /\ response' = Answer("deleteIngredient", IF id \in DOMAIN Ingredient THEN "ok" ELSE "notFound", NoDoc)
  /\ retired' = IF id \in DOMAIN Ingredient THEN retired \cup {id} ELSE retired
  /\ UNCHANGED <<Recipe, written>>
  /\ CalcIdle
  /\ FlightIdle
  /\ AuthIdle
  /\ LaborIdle

CreateRecipeRequest == \E id \in RecipeIds, body \in CreateBodies : createRecipe(id, body)
UpdateRecipeRequest == \E id \in RecipeIds, body \in UpdatePayloads : updateRecipe(id, body)
DeleteRecipeRequest == \E id \in RecipeIds : deleteRecipe(id)
CreateIngredientRequest == \E r \in IngredientRequests : createIngredient(r.id, r.body)
UpdateIngredientRequest == \E r \in IngredientRequests : updateIngredient(r.id, r.body)
DeleteIngredientRequest == \E id \in IngIds : deleteIngredient(id)

Init ==
  /\ Ingredient = << >>
  /\ Recipe = << >>
  /\ written = << >>
  /\ response = NoResponse
  /\ doc = NoDoc
  /\ unrounded = NoFigures
  /\ calls = 0
  /\ firstOut = Outputs(NoDoc)
  /\ before = Outputs(NoDoc)
  /\ retired = {}
  /\ Labor = << >>
  /\ laborCall = NoCall
  /\ User = << >>
  /\ inflight = NoRequests

Next ==
  \/ CreateRecipeRequest
  \/ UpdateRecipeRequest
  \/ DeleteRecipeRequest
  \/ CreateIngredientRequest
  \/ UpdateIngredientRequest
  \/ DeleteIngredientRequest

Spec == Init /\ [][Next]_vars

(***************************************************************************)
(* Data migration: one run of scripts/migrateData.js over a workbook       *)
(***************************************************************************)
\* lines 110-114: Ingredient.findOneAndUpdate({name}, {...}, {upsert: true}) per row
IngredientAfterImport(cat, wb) ==
  [x \in DOMAIN cat \cup CostedRows(wb) |->
     IF x \in CostedRows(wb)
     THEN IF x \in DOMAIN cat
          THEN ObjectAssign(cat[x], [costPerUnit |-> LastCost(wb.ingredientsData, x)])
          ELSE [costPerUnit |-> LastCost(wb.ingredientsData, x)]
     ELSE cat[x]]

\* lines 606-608: the documents the filter {pieName, variant} matches
Matching(coll, r) ==
  { x \in DOMAIN coll : coll[x].pieName = r.pieName /\ coll[x].variant = r.variant }

\* lines 606-615: Recipe.findOneAndUpdate(filter, {$set: updateData}, {upsert: true});
\* id is the _id of the document matched, or the new _id when there is none; a
\* duplicate key is caught at lines 620-629
Upserted(coll, id, r) ==
  IF DuplicateKey(coll, id, r) THEN coll
  ELSE [x \in DOMAIN coll \cup {id} |-> IF x = id THEN r ELSE coll[x]]

\* lines 597-615: the Recipe collection after the run; cat is the Ingredient
\* collection after step A
RecipeAfterImport(coll, id, wb, cat) ==
  IF ColumnSkipped(wb) THEN coll
  ELSE Upserted(coll, id, Costed(NewRecipe(recipeData(wb)), cat))

OutcomeOfImport(coll, id, wb) ==
  IF ColumnSkipped(wb) THEN "skipped"
  ELSE IF DuplicateKey(coll, id, NewRecipe(recipeData(wb))) THEN "duplicateKey"
  ELSE "upserted"

migrateData(id, wb) ==
  /\ CostedRows(wb) \cap retired \subseteq DOMAIN Ingredient
  /\ IF Matching(Recipe, recipeData(wb)) # {}
     THEN id \in Matching(Recipe, recipeData(wb))
     ELSE id \notin DOMAIN Recipe
  /\ Ingredient' = IngredientAfterImport(Ingredient, wb)
  /\ Recipe' = RecipeAfterImport(Recipe, id, wb, Ingredient')
  /\ written' = IF OutcomeOfImport(Recipe, id, wb) = "upserted"
                THEN [x \in DOMAIN Recipe' |->
                        IF x = id THEN [i \in Referenced(Recipe'[id]) |-> Ingredient'[i]]
                                  ELSE written[x]]
                ELSE written
  /\ response' = [op |-> "migrateData", status |-> 0,
                  message |-> <<OutcomeOfImport(Recipe, id, wb)>>]
  /\ UNCHANGED retired
  /\ CalcIdle
  /\ FlightIdle
  /\ AuthIdle
  /\ LaborIdle

\* the requests that come between runs of the script
ImportBodies ==
  { BaseBody,
    [BaseBody EXCEPT !.pieName = "Chicken", !.batchSize = 20],
    [BaseBody EXCEPT !.ingredients = <<>>],
    [BaseBody EXCEPT !.laborInputs = <<>>],
    [f \in DOMAIN BaseBody \cup {"variant"} |->
       IF f = "variant" THEN "Mini" ELSE BaseBody[f]] }

ImportPayloads ==
  { [pieName |-> "Steak"],
    [markupPercentage |-> 3000],
    [ingredients |-> <<>>],
    [laborInputs |-> <<>>, laborHourlyRate |-> 30000] }

MigrateDataRun == \E id \in RecipeIds, wb \in Workbooks : migrateData(id, wb)
CreateRecipeBetweenRuns == \E id \in RecipeIds, body \in ImportBodies : createRecipe(id, body)
UpdateRecipeBetweenRuns == \E id \in RecipeIds, body \in ImportPayloads : updateRecipe(id, body)

NextImport ==
  \/ MigrateDataRun
  \/ CreateRecipeBetweenRuns
  \/ UpdateRecipeBetweenRuns
  \/ DeleteRecipeRequest
  \/ CreateIngredientRequest
  \/ UpdateIngredientRequest
  \/ DeleteIngredientRequest

SpecImport == Init /\ [][NextImport]_vars

(***************************************************************************)
(* The ingredient catalog: the handlers of /ingredients with named         *)
(* ingredients.  The handlers and the routes call the name path            *)
(* ingredientName, the schema of models/Ingredient.js calls it name; the   *)
(* documents below have one name path, called name.                        *)
(***************************************************************************)
\* String.prototype.toLowerCase and the "i" option of $regex, on these names
toLowerCase(n) == IF n = "Flour" THEN "flour" ELSE IF n = "Butter" THEN "butter" ELSE n

\* request bodies of POST /ingredients and PUT /ingredients/:id
NamedBodies ==
  { [name |-> "Flour", costPerUnit |-> 1500],
    [name |-> "flour", costPerUnit |-> 99],
    [name |-> "Butter", costPerUnit |-> 1500] }

NamedPayloads == { [name |-> "flour"], [name |-> "Butter"], [costPerUnit |-> 99] }

\* lines 246-316: Ingredient.deleteMany({_id: {$in: ids}}); the look at the recipes
\* that use them is commented out (lines 262-281).  The router declares DELETE
\* /bulk-delete after DELETE /:id (ingredientRoutes.js, lines 91-102), whose id rule
\* answers such a request first; the handler is modelled as it runs when called.
bulkDeleteIngredients(ids) ==
  /\ Ingredient' = IF ids = {} THEN Ingredient
                   ELSE [x \in DOMAIN Ingredient \ ids |-> Ingredient[x]]
  /\ retired' = IF ids = {} THEN retired ELSE retired \cup (ids \cap DOMAIN Ingredient)
  /\ response' = [op |-> "bulkDeleteIngredients",
                  status |-> IF ids = {} THEN 400 ELSE 200, message |-> <<>>]
  /\ UNCHANGED <<Recipe, written>>
  /\ CalcIdle
  /\ FlightIdle
  /\ AuthIdle
  /\ LaborIdle

\* a row of the sheet sent to POST /ingredients/import: "Ingredient Name", "Unit"
\* ("" when the cell is missing) and "Cost per Unit (R)", which parseFloat reads as
\* a number or as NaN, or which is undefined
Rows ==
  { [name |-> "Flour", unit |-> "kg", cost |-> [kind |-> "number", value |-> 1500]],
    [name |-> "flour", unit |-> "kg", cost |-> [kind |-> "number", value |-> 99]],
    [name |-> "Butter", unit |-> "kg", cost |-> [kind |-> "number", value |-> 1500]],
    [name |-> "", unit |-> "kg", cost |-> [kind |-> "number", value |-> 99]],
    [name |-> "Butter", unit |-> "", cost |-> [kind |-> "number", value |-> 99]],
    [name |-> "Butter", unit |-> "kg", cost |-> [kind |-> "undefined"]],
    [name |-> "Butter", unit |-> "kg", cost |-> [kind |-> "NaN"]],
    [name |-> "Butter", unit |-> "kg", cost |-> [kind |-> "number", value |-> -99]] }

Sheets ==
  { <<r>> : r \in Rows } \cup
  { <<Rows1, Rows2>> : Rows1 \in { r \in Rows : r.name = "Flour" },
                       Rows2 \in { r \in Rows : r.name = "flour" \/ r.cost.kind = "NaN" } }

\* lines 135-165: the rows the loop does not skip
RowKept(r) ==
  /\ r.name # ""
  /\ r.unit # "" /\ r.cost.kind # "undefined"
  /\ r.cost.kind = "number" /\ r.cost.value >= 0

\* lines 179-180: the documents the filter {$regex: ^name$, $options: "i"} matches
MatchingName(cat, n) ==
  { i \in DOMAIN cat : Has(cat[i], "name") /\ toLowerCase(cat[i].name) = toLowerCase(n) }

\* findOne takes the first match in the collection's natural order
FirstOf(order, ids) ==
  order[CHOOSE k \in 1..Len(order) :
           /\ order[k] \in ids
           /\ \A j \in 1..(k - 1) : order[j] \notin ids]

\* lines 168-196: Ingredient.findOneAndUpdate(filter, {$set: {unit, costPerUnit, ...},
\* $setOnInsert: {ingredientName, createdBy}}, {upsert: true, ...}) for one row;
\* fresh are the _ids still to be issued
RowUpserted(cat, r, order, fresh) ==
  IF MatchingName(cat, r.name) # {}
  THEN [cat EXCEPT ![FirstOf(order, MatchingName(cat, r.name))] =
                      ObjectAssign(@, [costPerUnit |-> r.cost.value])]
  ELSE [x \in DOMAIN cat \cup {FirstOf(order, fresh)} |->
          IF x \in DOMAIN cat THEN cat[x]
          ELSE [name |-> r.name, costPerUnit |-> r.cost.value]]

\* lines 132-225: the loop over the rows, from row k on
RECURSIVE ImportedFrom(_, _, _, _, _)
ImportedFrom(cat, sheet, k, order, used) ==
  IF k > Len(sheet) THEN cat
  ELSE IF ~RowKept(sheet[k]) THEN ImportedFrom(cat, sheet, k + 1, order, used)
  ELSE ImportedFrom(RowUpserted(cat, sheet[k], order, IngIds \ (DOMAIN cat \cup used)),
                    sheet, k + 1, order, used)

\* the rows that are inserted need an _id each
RECURSIVE IdsNeeded(_, _, _, _)
IdsNeeded(cat, sheet, k, names) ==
  IF k > Len(sheet) THEN 0
  ELSE IF RowKept(sheet[k]) /\ MatchingName(cat, sheet[k].name) = {}
          /\ toLowerCase(sheet[k].name) \notin names
       THEN 1 + IdsNeeded(cat, sheet, k + 1, names \cup {toLowerCase(sheet[k].name)})
       ELSE IdsNeeded(cat, sheet, k + 1, names)

\* lines 112-241: POST /ingredients/import; the answer is 200 whatever the rows
importIngredients(sheet, order) ==
  /\ IdsNeeded(Ingredient, sheet, 1, {}) <=
        Cardinality(IngIds \ (DOMAIN Ingredient \cup retired))
  /\ Ingredient' = ImportedFrom(Ingredient, sheet, 1, order, retired)
  /\ response' = [op |-> "importIngredients",
                  status |-> IF Len(sheet) = 0 THEN 400 ELSE 200, message |-> <<>>]
  /\ UNCHANGED <<Recipe, written, retired>>
  /\ CalcIdle
  /\ FlightIdle
  /\ AuthIdle
  /\ LaborIdle

NaturalOrders == { <<"ing1", "ing2">>, <<"ing2", "ing1">> }

\* the recipe requests that come between the ingredient requests
CreateRecipeOnCatalog == \E id \in RecipeIds : createRecipe(id, BaseBody)
UpdateRecipeOnCatalog ==
  \E id \in RecipeIds, body \in {[markupPercentage |-> 3000], [batchSize |-> 20]} :
     updateRecipe(id, body)

CreateNamedIngredient == \E id \in IngIds, body \in NamedBodies : createIngredient(id, body)
UpdateNamedIngredient == \E id \in IngIds, body \in NamedPayloads : updateIngredient(id, body)
BulkDeleteRequest == \E ids \in SUBSET IngIds : bulkDeleteIngredients(ids)
ImportIngredientsRequest ==
  \E sheet \in Sheets, order \in NaturalOrders : importIngredients(sheet, order)

NextCatalog ==
  \/ CreateNamedIngredient
  \/ UpdateNamedIngredient
  \/ DeleteIngredientRequest
  \/ BulkDeleteRequest
  \/ ImportIngredientsRequest
  \/ CreateRecipeOnCatalog
  \/ UpdateRecipeOnCatalog
  \/ DeleteRecipeRequest

SpecCatalog == Init /\ [][NextCatalog]_vars

(***************************************************************************)
(* Labor data: the handlers of /labor and their helper                     *)
(***************************************************************************)
LaborIds == {"lab1", "lab2"}

\* a bug: the clamp left out
calculateCostPerPie_Unclamped(costPerHour, minutesPerPie) ==
  Mul(costPerHour, DivInt(minutesPerPie, 60))

\* laborController.js, lines 6-9
calculateCostPerPie(costPerHour, minutesPerPie) ==
  IF costPerHour.neg \/ minutesPerPie.neg THEN FromInt(0)
  ELSE Mul(costPerHour, DivInt(minutesPerPie, 60))

\* the arguments the helper is called with on its own
CostPerHourArgs == {-2000, 0, 2000, 2800}
MinutesArgs == {-120, 0, 120, 300, 125}

\* request bodies of POST /labor
LaborBodies ==
  { [pieName |-> "Steak", costPerHour |-> 2000, minutesPerPie |-> 300],
    [pieName |-> "Chicken", costPerHour |-> 2800, minutesPerPie |-> 120,
     laborCostPerPie |-> 9900],
    [pieName |-> "Steak", costPerHour |-> -2000, minutesPerPie |-> 300],
    [pieName |-> "Chicken", costPerHour |-> 2000] }

\* request bodies of PUT /labor/:id
LaborPayloads ==
  { [costPerHour |-> 2800],
    [minutesPerPie |-> 120],
    [costPerHour |-> 2800, minutesPerPie |-> 120],
    [laborCostPerPie |-> 9900],
    [laborCostPerPie |-> 9900, minutesPerPie |-> 300],
    [pieName |-> "Chicken"],
    [minutesPerPie |-> -120] }

\* the rules of the labor routes, a field at a time
LaborFieldValid(body, f) ==
  CASE f = "pieName"       -> body[f] # ""
    [] f = "costPerHour"   -> body[f] >= 0
    [] f = "minutesPerPie" -> body[f] >= 0
    [] OTHER               -> TRUE

createLaborValidationRules(body) ==
  \A f \in {"pieName", "costPerHour", "minutesPerPie"} : Has(body, f) /\ LaborFieldValid(body, f)

updateLaborValidationRules(body) ==
  \A f \in DOMAIN body : LaborFieldValid(body, f)

\* the unique index on pieName of the Labor schema
LaborDuplicateKey(coll, id, l) ==
  \E other \in DOMAIN coll \ {id} : coll[other].pieName = l.pieName

\* createLabor, lines 40-50: the document handed to Labor.create
NewLabor(body) ==
  [pieName |-> body.pieName,
   costPerHour |-> body.costPerHour,
   minutesPerPie |-> body.minutesPerPie,
   laborCostPerPie |-> calculateCostPerPie(Number(body.costPerHour, 100),
                                           Number(body.minutesPerPie, 10))]

\* a bug: recalculating on every update, from the stored values where the payload has none
UpdatedLabor_AlwaysRecalculated(labor, body) ==
  LET costPerHour   == IF Has(body, "costPerHour") THEN body.costPerHour ELSE labor.costPerHour
      minutesPerPie == IF Has(body, "minutesPerPie") THEN body.minutesPerPie
                       ELSE labor.minutesPerPie
  IN [pieName |-> IF Has(body, "pieName") THEN body.pieName ELSE labor.pieName,
      costPerHour |-> costPerHour,
      minutesPerPie |-> minutesPerPie,
      laborCostPerPie |-> calculateCostPerPie(Number(costPerHour, 100),
                                              Number(minutesPerPie, 10))]

\* updateLabor, lines 68-85: the document after findByIdAndUpdate with updatedData
UpdatedLabor(labor, body) ==
  LET costPerHour   == IF Has(body, "costPerHour") THEN body.costPerHour ELSE labor.costPerHour
      minutesPerPie == IF Has(body, "minutesPerPie") THEN body.minutesPerPie
                       ELSE labor.minutesPerPie
  IN [pieName |-> IF Has(body, "pieName") THEN body.pieName ELSE labor.pieName,
      costPerHour |-> costPerHour,
      minutesPerPie |-> minutesPerPie,
      laborCostPerPie |->
         IF Has(body, "costPerHour") \/ Has(body, "minutesPerPie")
         THEN calculateCostPerPie(Number(costPerHour, 100), Number(minutesPerPie, 10))
         ELSE IF Has(body, "laborCostPerPie") THEN Number(body.laborCostPerPie, 100)
         ELSE labor.laborCostPerPie]

OutcomeOfCreateLabor(coll, id, body) ==
  IF ~createLaborValidationRules(body) THEN "validation"
  ELSE IF LaborDuplicateKey(coll, id, NewLabor(body)) THEN "duplicateKey"
  ELSE "created"

OutcomeOfUpdateLabor(coll, id, body) ==
  IF ~updateLaborValidationRules(body) THEN "validation"
  ELSE IF id \notin DOMAIN coll THEN "notFound"
  ELSE IF LaborDuplicateKey(coll, id, UpdatedLabor(coll[id], body)) THEN "duplicateKey"
  ELSE "ok"

RestIdle == UNCHANGED <<Ingredient, Recipe, written, retired>>

createLabor(id, body) ==
  /\ id \notin DOMAIN Labor
  /\ Labor' = IF OutcomeOfCreateLabor(Labor, id, body) = "created"
               THEN [x \in DOMAIN Labor \cup {id} |->
                       IF x = id THEN NewLabor(body) ELSE Labor[x]]
               ELSE Labor
  /\ response' = Answer("createLabor", OutcomeOfCreateLabor(Labor, id, body), NoDoc)
  /\ UNCHANGED laborCall
  /\ RestIdle
  /\ CalcIdle
  /\ FlightIdle
  /\ AuthIdle

updateLabor(id, body) ==
  /\ Labor' = IF OutcomeOfUpdateLabor(Labor, id, body) = "ok"
               THEN [Labor EXCEPT ![id] = UpdatedLabor(Labor[id], body)]
               ELSE Labor
  /\ response' = Answer("updateLabor", OutcomeOfUpdateLabor(Labor, id, body), NoDoc)
  /\ UNCHANGED laborCall
  /\ RestIdle
  /\ CalcIdle
  /\ FlightIdle
  /\ AuthIdle

deleteLabor(id) ==
  /\ Labor' = IF id \in DOMAIN Labor
              THEN [x \in DOMAIN Labor \ {id} |-> Labor[x]] ELSE Labor
  /\ response' = Answer("deleteLabor", IF id \in DOMAIN Labor THEN "ok" ELSE "notFound", NoDoc)
  /\ UNCHANGED laborCall
  /\ RestIdle
  /\ CalcIdle
  /\ FlightIdle
  /\ AuthIdle

\* the helper called on its own
CallCalculateCostPerPie ==
  /\ \E c \in CostPerHourArgs, m \in MinutesArgs :
        laborCall' = [called |-> TRUE, costPerHour |-> c, minutesPerPie |-> m,
                      result |-> calculateCostPerPie(Number(c, 100), Number(m, 10))]
  /\ UNCHANGED <<Labor, response>>
  /\ RestIdle
  /\ CalcIdle
  /\ FlightIdle
  /\ AuthIdle

CreateLaborRequest == \E id \in LaborIds, body \in LaborBodies : createLabor(id, body)
UpdateLaborRequest == \E id \in LaborIds, body \in LaborPayloads : updateLabor(id, body)
DeleteLaborRequest == \E id \in LaborIds : deleteLabor(id)

NextLabor ==
  \/ CreateLaborRequest
  \/ UpdateLaborRequest
  \/ DeleteLaborRequest
  \/ CallCalculateCostPerPie

SpecLabor == Init /\ [][NextLabor]_vars

(***************************************************************************)
(* Access control: the middleware in front of the handlers                 *)
(***************************************************************************)
\* who sends a request: without a token, with a token jwt.verify turns down, with
\* the token of a user since deleted, or with the token of a user with a role
Callers ==
  { [token |-> "none", user |-> FALSE, role |-> "none"],
    [token |-> "invalid", user |-> FALSE, role |-> "none"],
    [token |-> "valid", user |-> FALSE, role |-> "none"],
    [token |-> "valid", user |-> TRUE, role |-> "user"],
    [token |-> "valid", user |-> TRUE, role |-> "manager"],
    [token |-> "valid", user |-> TRUE, role |-> "admin"] }

\* authMiddleware, lines 7-51: next() without an error
protect(c) == c.token = "valid" /\ c.user

\* a bug: every role let through
authorize_EveryRole(roles, c) == TRUE

\* authMiddleware, lines 54-68: next() without an error
authorize(roles, c) == c.role \in roles

\* the status the middleware of a route ends the request with, 200 when it lets it
\* through; roles is what the route hands to authorize, or {} when it has none
Gate(c, roles) ==
  IF ~protect(c) THEN 401
  ELSE IF roles # {} /\ ~authorize(roles, c) THEN 403
  ELSE 200

\* next(new ErrorResponse(..., 401 or 403)): no handler runs
Denied(op, status) ==
  /\ response' = [op |-> op, status |-> status, message |-> <<>>]
  /\ UNCHANGED <<laborCall>>
  /\ LaborIdle
  /\ RestIdle
  /\ CalcIdle
  /\ FlightIdle
  /\ AuthIdle

\* the routes of recipeRoutes.js, ingredientRoutes.js and laborRoutes.js that write
RecipeWriteBy(c) ==
  \/ \E id \in {"rec1"} :
        IF Gate(c, {"admin", "manager"}) = 200 THEN createRecipe(id, BaseBody)
        ELSE Denied("createRecipe", Gate(c, {"admin", "manager"}))
  \/ \E id \in {"rec1"} :
        IF Gate(c, {"admin", "manager"}) = 200
        THEN updateRecipe(id, [markupPercentage |-> 3000])
        ELSE Denied("updateRecipe", Gate(c, {"admin", "manager"}))
  \/ \E id \in {"rec1"} :
        IF Gate(c, {"admin", "manager"}) = 200 THEN deleteRecipe(id)
        ELSE Denied("deleteRecipe", Gate(c, {"admin", "manager"}))

IngredientWriteBy(c) ==
  \/ \E r \in IngredientRequests :
        IF Gate(c, {"admin", "manager"}) = 200 THEN createIngredient(r.id, r.body)
        ELSE Denied("createIngredient", Gate(c, {"admin", "manager"}))
  \/ \E r \in IngredientRequests :
        IF Gate(c, {"admin", "manager"}) = 200 THEN updateIngredient(r.id, r.body)
        ELSE Denied("updateIngredient", Gate(c, {"admin", "manager"}))
  \/ \E id \in IngIds :
        IF Gate(c, {"admin", "manager"}) = 200 THEN deleteIngredient(id)
        ELSE Denied("deleteIngredient", Gate(c, {"admin", "manager"}))
  \/ \E sheet \in { <<r>> : r \in { x \in Rows : x.name = "Flour" } } :
        IF Gate(c, {"admin", "manager"}) = 200 THEN importIngredients(sheet, <<"ing1", "ing2">>)
        ELSE Denied("importIngredients", Gate(c, {"admin", "manager"}))

LaborWriteBy(c) ==
  \/ \E id \in {"lab1"} :
        IF Gate(c, {"admin"}) = 200
        THEN createLabor(id, [pieName |-> "Steak", costPerHour |-> 2000,
                              minutesPerPie |-> 300])
        ELSE Denied("createLabor", Gate(c, {"admin"}))
  \/ \E id \in {"lab1"} :
        IF Gate(c, {"admin"}) = 200 THEN updateLabor(id, [costPerHour |-> 2800])
        ELSE Denied("updateLabor", Gate(c, {"admin"}))
  \/ \E id \in {"lab1"} :
        IF Gate(c, {"admin"}) = 200 THEN deleteLabor(id)
        ELSE Denied("deleteLabor", Gate(c, {"admin"}))

\* GET /recipes, /ingredients and /labor: find() and an answer, for anyone logged in
ReadBy(c) ==
  \E op \in {"getAllRecipes", "getAllIngredients", "getAllLabor"} :
     Denied(op, Gate(c, {}))

RecipeWrite == \E c \in Callers : RecipeWriteBy(c)
IngredientWrite == \E c \in Callers : IngredientWriteBy(c)
LaborWrite == \E c \in Callers : LaborWriteBy(c)
Read == \E c \in Callers : ReadBy(c)

NextAccess ==
  \/ RecipeWrite
  \/ IngredientWrite
  \/ LaborWrite
  \/ Read

SpecAccess == Init /\ [][NextAccess]_vars

(***************************************************************************)
(* Accounts: the handlers of /auth                                         *)
(***************************************************************************)
Emails == {"test@example.com", "admin@example.com", "not-an-email"}
Passwords == {"password123", "wrongpassword", "12345"}
Usernames == {"testuser", "adminuser", ""}

\* request bodies of POST /auth/register and POST /auth/login
RegisterBodies == [username : Usernames, email : Emails, password : Passwords]
LoginBodies == [email : Emails, password : Passwords]

\* authRoutes.js, lines 35-41: a username, isEmail, a password of 6 or more
registerValidationRules(body) ==
  /\ body.username # ""
  /\ body.email # "not-an-email"
  /\ Len(body.password) >= 6

\* authRoutes.js, lines 44-47: isEmail, and a password, which every body here has
loginValidationRules(body) == body.email # "not-an-email"

\* matchPassword: bcrypt.compare(enteredPassword, this.password), the password
\* stored being the bcrypt hash the pre-save hook made of it
matchPassword(user, enteredPassword) == user.password = [bcrypt |-> enteredPassword]

\* the unique indexes of the User schema: username and email
DuplicateUser(coll, body) ==
  \/ body.email \in DOMAIN coll
  \/ \E e \in DOMAIN coll : coll[e].username = body.username

\* lines 18-90: what register answers; the 201 carries a message and no token
OutcomeOfRegister(coll, body) ==
  IF ~registerValidationRules(body) THEN [status |-> 400, message |-> <<"Validation Error">>]
  ELSE IF DuplicateUser(coll, body) THEN [status |-> 500, message |-> <<"duplicate key error">>]
  ELSE [status |-> 201, message |-> <<"Registration successful! Please check your email to verify your account.">>]

\* lines 95-126: what login answers; sendTokenResponse puts the token in the body
OutcomeOfLogin(coll, body) ==
  IF ~loginValidationRules(body) THEN [status |-> 400, message |-> <<"Validation Error">>]
  ELSE IF body.email \notin DOMAIN coll THEN [status |-> 401, message |-> <<"Invalid credentials">>]
  ELSE IF ~matchPassword(coll[body.email], body.password)
       THEN [status |-> 401, message |-> <<"Invalid credentials">>]
  ELSE IF ~coll[body.email].isVerified
       THEN [status |-> 403, message |-> <<"Account not verified. Please check your email.">>]
  ELSE [status |-> 200, message |-> <<"token">>]

\* lines 18-90: new User({username, email, password}), getEmailVerificationToken(),
\* save(), sendEmail()
register(body) ==
  /\ User' = IF OutcomeOfRegister(User, body).status = 201
             THEN [e \in DOMAIN User \cup {body.email} |->
                     IF e = body.email
                     THEN [username |-> body.username, password |-> [bcrypt |-> body.password],
                           role |-> "user", isVerified |-> FALSE,
                           emailVerificationToken |-> TRUE]
                     ELSE User[e]]
             ELSE User
  /\ response' = [op |-> "register", status |-> OutcomeOfRegister(User, body).status,
                  message |-> OutcomeOfRegister(User, body).message]
  /\ UNCHANGED <<laborCall>>
  /\ LaborIdle
  /\ RestIdle
  /\ CalcIdle
  /\ FlightIdle

\* lines 95-126
login(body) ==
  /\ response' = [op |-> "login", status |-> OutcomeOfLogin(User, body).status,
                  message |-> OutcomeOfLogin(User, body).message]
  /\ UNCHANGED <<User, laborCall>>
  /\ LaborIdle
  /\ RestIdle
  /\ CalcIdle
  /\ FlightIdle

\* lines 170-209: GET /auth/verifyemail?token=..., with the token mailed to e;
\* expired is whether its ten minutes are over
verifyEmail(e, expired) ==
  /\ User' = IF e \in DOMAIN User /\ User[e].emailVerificationToken /\ ~expired
             THEN [User EXCEPT ![e].isVerified = TRUE,
                               ![e].emailVerificationToken = FALSE]
             ELSE User
  /\ response' = [op |-> "verifyEmail",
                  status |-> IF e \in DOMAIN User /\ User[e].emailVerificationToken
                                /\ ~expired
                             THEN 302 ELSE 400,
                  message |-> <<>>]
  /\ UNCHANGED <<laborCall>>
  /\ LaborIdle
  /\ RestIdle
  /\ CalcIdle
  /\ FlightIdle

RegisterRequest == \E body \in RegisterBodies : register(body)
LoginRequest == \E body \in LoginBodies : login(body)
VerifyEmailRequest == \E e \in Emails, expired \in BOOLEAN : verifyEmail(e, expired)

NextAuth ==
  \/ RegisterRequest
  \/ LoginRequest
  \/ VerifyEmailRequest

SpecAuth == Init /\ [][NextAuth]_vars

(***************************************************************************)
(* Concurrency: PUT /recipes/:id a step at a time.  The handler awaits     *)
(* three times, at findById, at updateCalculatedCostsAndPrice and at       *)
(* save, and another request can run at each of them.                      *)
(***************************************************************************)
ConcurrentPayloads == { [markupPercentage |-> 3000], [batchSize |-> 20] }

\* the paths save() takes as modified: those whose value is another than the one
\* loaded, or, all being TRUE, every path the handler assigned, which are those of
\* the payload and the five figures
ModifiedPaths(loaded, mem, updateData, all) ==
  IF all
  THEN DOMAIN updateData \cup {"totalIngredientCost", "totalLaborCost", "totalBatchCost",
                               "costPerPie", "sellingPrice"}
  ELSE { f \in DOMAIN loaded \ {"calculatedCosts"} : mem[f] # loaded[f] }
       \cup { g \in DOMAIN loaded.calculatedCosts :
                 mem.calculatedCosts[g] # loaded.calculatedCosts[g] }

\* save() sends $set for the modified paths only; stored is the document in the
\* collection, mem the one in memory
SavedPaths(stored, mem, paths) ==
  [f \in DOMAIN stored |->
     IF f = "calculatedCosts"
     THEN [g \in DOMAIN stored.calculatedCosts |->
             IF g \in paths THEN mem.calculatedCosts[g] ELSE stored.calculatedCosts[g]]
     ELSE IF f \in paths THEN mem[f] ELSE stored[f]]

\* recipeController.js, lines 107-113: await Recipe.findById(recipeId)
FindRecipe(r, id, updateData) ==
  /\ inflight[r].pc = "none"
  /\ inflight' = IF id \in DOMAIN Recipe
                 THEN [inflight EXCEPT ![r] = [pc |-> "found", id |-> id,
                                               updateData |-> updateData,
                                               loaded |-> Recipe[id]]]
                 ELSE inflight
  /\ response' = IF id \in DOMAIN Recipe THEN response
                 ELSE Answer("updateRecipe", "notFound", NoDoc)
  /\ UNCHANGED <<Recipe, written, Ingredient, retired>>
  /\ CalcIdle
  /\ LaborIdle
  /\ AuthIdle

\* lines 115-120: Object.assign(recipe, updateData) and
\* await recipe.updateCalculatedCostsAndPrice(), which throws on a reference that
\* does not resolve
CalculateRecipe(r) ==
  /\ inflight[r].pc = "found"
  /\ inflight' =
       IF Unresolved(ObjectAssign(inflight[r].loaded, inflight[r].updateData), Ingredient)
       THEN [inflight EXCEPT ![r] = [pc |-> "none"]]
       ELSE [inflight EXCEPT ![r] =
               [pc |-> "calculated", id |-> inflight[r].id,
                updateData |-> inflight[r].updateData, loaded |-> inflight[r].loaded,
                mem |-> RecalculatedUpdate(inflight[r].loaded, inflight[r].updateData,
                                           Ingredient)]]
  /\ response' =
       IF Unresolved(ObjectAssign(inflight[r].loaded, inflight[r].updateData), Ingredient)
       THEN Answer("updateRecipe", "ingredient",
                   ObjectAssign(inflight[r].loaded, inflight[r].updateData))
       ELSE response
  /\ UNCHANGED <<Recipe, written, Ingredient, retired>>
  /\ CalcIdle
  /\ LaborIdle
  /\ AuthIdle

\* lines 122-133: await recipe.save() and the answer; paths are the modified paths.
\* A document deleted in the meantime makes save() throw.
SaveRecipe(r, paths) ==
  /\ inflight[r].pc = "calculated"
  /\ Recipe' = IF inflight[r].id \in DOMAIN Recipe
               THEN [Recipe EXCEPT ![inflight[r].id] =
                                      SavedPaths(@, inflight[r].mem, paths)]
               ELSE Recipe
  /\ response' = Answer("updateRecipe",
                        IF inflight[r].id \in DOMAIN Recipe THEN "ok" ELSE "duplicateKey",
                        inflight[r].mem)
  /\ inflight' = [inflight EXCEPT ![r] = [pc |-> "none"]]
  /\ UNCHANGED <<written, Ingredient, retired>>
  /\ CalcIdle
  /\ LaborIdle
  /\ AuthIdle

FindRecipeStep ==
  \E r \in Requests, updateData \in ConcurrentPayloads : FindRecipe(r, "rec1", updateData)
CalculateRecipeStep == \E r \in Requests : CalculateRecipe(r)
SaveRecipeStep ==
  \E r \in Requests, all \in BOOLEAN :
     /\ inflight[r].pc = "calculated"
     /\ SaveRecipe(r, ModifiedPaths(inflight[r].loaded, inflight[r].mem,
                                    inflight[r].updateData, all))

CreateBaseRecipe == createRecipe("rec1", BaseBody)

NextConcurrent ==
  \/ FindRecipeStep
  \/ CalculateRecipeStep
  \/ SaveRecipeStep
  \/ CreateBaseRecipe
  \/ DeleteRecipeRequest
  \/ CreateIngredientRequest

SpecConcurrent == Init /\ [][NextConcurrent]_vars

(***************************************************************************)
(* Properties of the API (checked under Spec)                              *)
(***************************************************************************)
InputFields == {"ingredients", "laborInputs", "laborHourlyRate", "batchSize",
                "markupPercentage"}

\* the unit costs of the ingredients r refers to are what they were at its last write
CostsAsWritten(id) ==
  \A i \in DOMAIN written[id] : i \in DOMAIN Ingredient /\ Ingredient[i] = written[id][i]

\* C1: after any sequence of recipe creates and updates, every persisted recipe's
\* calculatedCosts and sellingPrice are the calculator's output for its stored
\* inputs, with the unit costs the catalog held when the recipe was last written.
C1_StoredCostsConsistent ==
  \A id \in DOMAIN Recipe :
     /\ DOMAIN written[id] = Referenced(Recipe[id])
     /\ Outputs(Recipe[id]) =
           Outputs(updateCalculatedCostsAndPrice(NewRecipe(Recipe[id]), written[id]))

\* a recipe updated after its creation, its ingredient's cost changed since
C1_Witness ==
  \E id \in DOMAIN Recipe :
     /\ Recipe[id].markupPercentage = 3000
     /\ Recipe[id].batchSize = 20
     /\ ~CostsAsWritten(id)
     /\ Recipe[id].sellingPrice > 0

\* C2: an accepted update changing a subset of the inputs stores the five outputs
\* a fresh create of the merged inputs would store; inputs not in the payload keep
\* their values, and an output stays the same when neither the inputs nor the unit
\* costs it depends on changed.
C2_FullRecalculation ==
  [][\A id \in RecipeIds, p \in UpdatePayloads :
       (response'.op = "updateRecipe" /\ response'.status = 200 /\ updateRecipe(id, p)) =>
          LET old == Recipe[id]
              new == Recipe'[id]
              same(F) == \A f \in F : ~Has(p, f)
          IN /\ \A f \in InputFields \cup {"pieName", "variant"} :
                   new[f] = IF Has(p, f) THEN p[f] ELSE old[f]
             /\ Outputs(new) =
                   Outputs(Costed(NewRecipe(new), Ingredient))
             /\ same({"laborInputs", "laborHourlyRate"}) =>
                   new.calculatedCosts.totalLaborCost = old.calculatedCosts.totalLaborCost
             /\ (same({"ingredients"}) /\ CostsAsWritten(id)) =>
                   new.calculatedCosts.totalIngredientCost =
                      old.calculatedCosts.totalIngredientCost
             /\ (same(InputFields \ {"markupPercentage"}) /\ CostsAsWritten(id)) =>
                   new.calculatedCosts = old.calculatedCosts
             /\ (same(InputFields) /\ CostsAsWritten(id)) => Outputs(new) = Outputs(old)
    ]_vars

\* an update of the markup alone went through: the price changed, the costs did not
C2_Witness ==
  /\ response.op = "updateRecipe" /\ response.status = 200
  /\ \E id \in DOMAIN Recipe :
        /\ Recipe[id].markupPercentage = 3000
        /\ Recipe[id].batchSize = 10
        /\ Recipe[id].calculatedCosts.costPerPie = 655
        /\ Recipe[id].sellingPrice = 852

\* C3: a recipe create or update whose ingredient list has a reference that does
\* not resolve is answered with a 400-class error and persists nothing.
C3_UnresolvedPersistsNothing ==
  [][/\ \A id \in RecipeIds, body \in CreateBodies :
          (response'.op = "createRecipe" /\ Has(body, "ingredients")
             /\ Unresolved(body, Ingredient) /\ createRecipe(id, body)) =>
             /\ response'.status \in 400..499
             /\ Recipe' = Recipe
     /\ \A id \in RecipeIds, p \in UpdatePayloads :
          (response'.op = "updateRecipe" /\ Has(p, "ingredients")
             /\ Unresolved(p, Ingredient) /\ updateRecipe(id, p)) =>
             /\ response'.status \in 400..499
             /\ id \in DOMAIN Recipe => response'.status = 400
             /\ Recipe' = Recipe
    ]_vars

\* an update of a stored recipe was rejected for its ingredient reference
C3_Witness ==
  /\ response.op = "updateRecipe" /\ response.status = 400
  /\ response.message # <<"Validation Error">>
  /\ \E id \in DOMAIN Recipe : Referenced(Recipe[id]) \subseteq DOMAIN Ingredient

\* a body with one of the faults the rules are there for
NegativeOrEmpty(body) ==
  \/ Has(body, "ingredients") /\ \E i \in 1..Len(body.ingredients) :
                                     body.ingredients[i].quantity < 0
  \/ Has(body, "laborHourlyRate") /\ body.laborHourlyRate < 0
  \/ Has(body, "markupPercentage") /\ body.markupPercentage < 0
  \/ Has(body, "batchSize") /\ body.batchSize < 1
  \/ Has(body, "ingredients") /\ body.ingredients = <<>>
  \/ Has(body, "laborInputs") /\ body.laborInputs = <<>>

ListMissing(body) == ~Has(body, "ingredients") \/ ~Has(body, "laborInputs")

\* the request was turned down by the validation rules, nothing written
TurnedDown ==
  /\ response'.status = 400
  /\ response'.message = <<"Validation Error">>
  /\ Recipe' = Recipe

\* C15 as stated: create and update requests with a negative quantity, rate or
\* markup, a batchSize that is no positive integer, or an empty or missing
\* ingredients or laborInputs list are rejected with a 400 validation error and
\* leave the persisted recipes unchanged.
C15_Original ==
  [][/\ \A id \in RecipeIds, body \in CreateBodies :
          (response'.op = "createRecipe" /\ (NegativeOrEmpty(body) \/ ListMissing(body))
             /\ createRecipe(id, body)) => TurnedDown
     /\ \A id \in RecipeIds, p \in UpdatePayloads :
          (response'.op = "updateRecipe" /\ (NegativeOrEmpty(p) \/ ListMissing(p))
             /\ updateRecipe(id, p)) => TurnedDown
    ]_vars

\* C15 amended: such create and update requests are rejected with a 400 validation
\* error before the calculator runs (the answer is the validation error even when
\* an ingredient reference does not resolve) and leave the persisted recipes
\* unchanged; a missing list is rejected on create only, an update without the
\* field keeping the stored list.
C15_InvalidRejected ==
  [][/\ \A id \in RecipeIds, body \in CreateBodies :
          (response'.op = "createRecipe" /\ (NegativeOrEmpty(body) \/ ListMissing(body))
             /\ createRecipe(id, body)) => TurnedDown
     /\ \A id \in RecipeIds, p \in UpdatePayloads :
          /\ (response'.op = "updateRecipe" /\ NegativeOrEmpty(p) /\ updateRecipe(id, p))
                => TurnedDown
          /\ (response'.op = "updateRecipe" /\ response'.status = 200
                /\ ~NegativeOrEmpty(p) /\ ListMissing(p) /\ updateRecipe(id, p)) =>
                   \A f \in {"ingredients", "laborInputs"} :
                      ~Has(p, f) => Recipe'[id][f] = Recipe[id][f]
    ]_vars

\* an update of a stored recipe was turned down by the validation rules
C15_Witness ==
  /\ response.op = "updateRecipe"
  /\ response.status = 400
  /\ response.message = <<"Validation Error">>
  /\ \E id \in DOMAIN Recipe : Recipe[id].batchSize = 20

(***************************************************************************)
(* Properties of the calculator (checked under SpecCalc)                   *)
(***************************************************************************)
Calculated == calls >= 1 /\ response.status = 200
\* r passed the rules of the recipe routes, the unit costs those of the Ingredient routes
Validated(r) ==
  /\ r.batchSize >= 1
  /\ \A i \in DOMAIN Ingredient : Ingredient[i].costPerUnit >= 0

\* the number of 4 decimals a subtotal stands for, in units of 0.0001: the whole
\* number nearest to x * 10000, computed exactly
Decimal4(x) == MathRound([x EXCEPT !.m = BigMulSmall(x.m, 10000)])

RECURSIVE Gcd(_, _)
Gcd(a, b) == IF b = 0 THEN a ELSE Gcd(b, a % b)

\* the decimal value of each figure before the rounding pass, as a fraction n/d in
\* units of 0.0001: the 4-decimal subtotals, their sum, the sum over the batch size,
\* and that times 1 + markup/100
DecimalFigures ==
  LET ing == Decimal4(unrounded.totalIngredientCost)
      lab == Decimal4(unrounded.totalLaborCost)
      g   == Gcd(10000 + doc.markupPercentage, 10000)
  IN [totalIngredientCost |-> [n |-> ing, d |-> 1],
      totalLaborCost      |-> [n |-> lab, d |-> 1],
      totalBatchCost      |-> [n |-> ing + lab, d |-> 1],
      costPerPie          |-> [n |-> ing + lab, d |-> doc.batchSize],
      sellingPrice        |-> [n |-> (ing + lab) * ((10000 + doc.markupPercentage) \div g),
                               d |-> doc.batchSize * (10000 \div g)]]

\* k hundredths is the multiple of 0.01 nearest to the fraction x, a tie going up
IsHalfUp2(k, x) ==
  /\ (100 * k - 50) * x.d <= x.n
  /\ x.n < (100 * k + 50) * x.d

\* k hundredths is a multiple of 0.01 nearest to the fraction x, a tie going either way
IsNearest2(k, x) ==
  /\ (100 * k - 50) * x.d <= x.n
  /\ x.n <= (100 * k + 50) * x.d

\* the sum over the lines of quantity x costPerUnit, exactly, in units of 0.00001
RECURSIVE ExactIngredientSum(_, _)
ExactIngredientSum(items, cat) ==
  IF items = <<>> THEN 0
  ELSE Head(items).quantity * cat[Head(items).ingredient].costPerUnit
       + ExactIngredientSum(Tail(items), cat)

ReferenceLines(r) ==
  /\ r.ingredients = <<[ingredient |-> "ing1", quantity |-> 200]>>
  /\ "ing1" \in DOMAIN Ingredient
  /\ Ingredient["ing1"].costPerUnit = 1500
  /\ r.laborInputs = <<[workers |-> 1, hoursPerWorker |-> 250]>>
  /\ r.laborHourlyRate = 25000
  /\ r.markupPercentage = 1000

\* C4: the reference input (2 x 1.50; 1 worker x 2.5 h at 25; batch 10; markup
\* 10%) stores 3.00, 62.50, 65.50, 6.55 and sellingPrice 7.21.
C4_ReferenceScenario ==
  (Calculated /\ ReferenceLines(doc) /\ doc.batchSize = 10) =>
     /\ doc.calculatedCosts = [totalIngredientCost |-> 300, totalLaborCost |-> 6250,
                               totalBatchCost |-> 6550, costPerPie |-> 655]
     /\ doc.sellingPrice = 721

C4_Witness == Calculated /\ ReferenceLines(doc) /\ doc.batchSize = 10
              /\ before.calculatedCosts = StaleCosts

C6_RoundedHalfUp ==
  (Calculated /\ Validated(doc)) =>
     /\ IsHalfUp2(doc.calculatedCosts.totalIngredientCost, DecimalFigures.totalIngredientCost)
     /\ IsHalfUp2(doc.calculatedCosts.totalLaborCost, DecimalFigures.totalLaborCost)
     /\ IsHalfUp2(doc.calculatedCosts.totalBatchCost, DecimalFigures.totalBatchCost)
     /\ IsHalfUp2(doc.calculatedCosts.costPerPie, DecimalFigures.costPerPie)
     /\ IsHalfUp2(doc.sellingPrice, DecimalFigures.sellingPrice)

\* C7 as stated: the stored totalBatchCost equals the stored totalIngredientCost
\* plus the stored totalLaborCost, for all validated inputs.
C7_Original ==
  (Calculated /\ Validated(doc)) =>
     doc.calculatedCosts.totalBatchCost =
        doc.calculatedCosts.totalIngredientCost + doc.calculatedCosts.totalLaborCost

\* C7 amended: the stored totalBatchCost is the sum of the 4-decimal ingredient and
\* labor subtotals rounded to the nearest cent; it differs from the stored
\* totalIngredientCost plus the stored totalLaborCost by at most 0.01, and equals it
\* when one subtotal is a whole number of cents and the other is not exactly half
\* a cent off one.
C7_BatchCostOfSubtotals ==
  (Calculated /\ Validated(doc)) =>
     LET ing == DecimalFigures.totalIngredientCost.n
         lab == DecimalFigures.totalLaborCost.n
         sum == doc.calculatedCosts.totalIngredientCost + doc.calculatedCosts.totalLaborCost
         bat == doc.calculatedCosts.totalBatchCost
     IN /\ IsNearest2(bat, DecimalFigures.totalBatchCost)
        /\ bat - sum \in {-1, 0, 1}
        /\ ((ing % 100 = 0 /\ lab % 100 # 50) \/ (lab % 100 = 0 /\ ing % 100 # 50))
              => bat = sum

C7_Witness ==
  /\ Calculated /\ Validated(doc)
  /\ DecimalFigures.totalIngredientCost.n % 100 # 0
  /\ DecimalFigures.totalLaborCost.n % 100 # 0
  /\ doc.calculatedCosts.totalBatchCost #
        doc.calculatedCosts.totalIngredientCost + doc.calculatedCosts.totalLaborCost

\* C8 as stated: the stored totalIngredientCost is the sum of quantity x
\* costPerUnit rounded once to 2 decimals; the 4-decimal rounding never matters.
C8_Original ==
  (Calculated /\ Validated(doc)) =>
     IsHalfUp2(doc.calculatedCosts.totalIngredientCost,
               [n |-> ExactIngredientSum(doc.ingredients, Ingredient), d |-> 10])

\* C8 amended: the stored totalIngredientCost is a multiple of 0.01 within 0.00505
\* of the sum of quantity x costPerUnit; it equals the sum rounded once to 2
\* decimals whenever the sum is more than 0.00005 away from every half cent, and
\* within that distance it may be either of the two cents next to the sum.
C8_IngredientCostRoundedTwice ==
  (Calculated /\ Validated(doc)) =>
     LET sum == ExactIngredientSum(doc.ingredients, Ingredient)
         ing == doc.calculatedCosts.totalIngredientCost
     IN /\ 1000 * ing - sum \in -505..505
        /\ (sum % 1000 < 495 \/ sum % 1000 > 505) => IsHalfUp2(ing, [n |-> sum, d |-> 10])

\* the 4-decimal rounding lifts a sum below the half cent onto it:
\* 0.19 x 0.184 = 0.03496 -> 0.0350 -> 0.04
C8_Witness ==
  /\ Calculated /\ Validated(doc)
  /\ ExactIngredientSum(doc.ingredients, Ingredient) % 1000 \in 495..499
  /\ ~IsHalfUp2(doc.calculatedCosts.totalIngredientCost,
                [n |-> ExactIngredientSum(doc.ingredients, Ingredient), d |-> 10])

\* C9: a second call of updateCalculatedCostsAndPrice with unchanged inputs and
\* unchanged ingredient costs leaves all five outputs as the first call left them,
\* whatever calculatedCosts and sellingPrice held before the first call.
C9_Idempotent ==
  (calls = 2 /\ response.status = 200) =>
     /\ Outputs(doc) = firstOut
     /\ firstOut = Outputs(updateCalculatedCostsAndPrice(
                      [doc EXCEPT !.calculatedCosts = ZeroCosts, !.sellingPrice = 0],
                      Ingredient))

C9_Witness ==
  /\ calls = 2 /\ response.status = 200
  /\ before.calculatedCosts = StaleCosts
  /\ firstOut # before

\* the stored sellingPrice of doc, had the markup been m
SellingPriceAt(m) ==
  Round2(SellingPrice([doc EXCEPT !.markupPercentage = m], unrounded.costPerPie))

\* C10 as stated: for fixed ingredients, labor, rate and batchSize and markups
\* 0 <= m1 < m2 the stored sellingPrice for m2 is strictly greater than for m1.
C10_Original ==
  (Calculated /\ Validated(doc)) =>
     \A m2 \in MarkupSet :
        doc.markupPercentage < m2 => doc.sellingPrice < SellingPriceAt(m2)

\* C10 amended: for fixed ingredients, labor, rate and batchSize and markups
\* 0 <= m1 < m2 the stored sellingPrice for m2 is greater than or equal to the one
\* for m1, and strictly greater whenever the two unrounded prices are more than
\* 0.01 apart.
C10_MarkupMonotone ==
  (Calculated /\ Validated(doc)) =>
     \A m2 \in MarkupSet :
        doc.markupPercentage < m2 =>
           /\ doc.sellingPrice <= SellingPriceAt(m2)
           /\ DecimalFigures.costPerPie.n * (m2 - doc.markupPercentage)
                 > 1000000 * DecimalFigures.costPerPie.d
              => doc.sellingPrice < SellingPriceAt(m2)

C10_Witness ==
  /\ Calculated /\ Validated(doc)
  /\ doc.sellingPrice > 0
  /\ \E m2 \in MarkupSet :
        doc.markupPercentage < m2 /\ doc.sellingPrice = SellingPriceAt(m2)
  /\ \E m2 \in MarkupSet :
        doc.markupPercentage < m2 /\ doc.sellingPrice < SellingPriceAt(m2)

\* the stored costPerPie of doc, had the batch size been b
CostPerPieAt(b) ==
  Round2(CostPerPie([doc EXCEPT !.batchSize = b], unrounded.totalBatchCost))

\* C11: for fixed ingredient and labor inputs and any batchSize b >= 1, the stored
\* costPerPie for batchSize 2b differs from half of the stored costPerPie for
\* batchSize b by at most 0.01.
C11_BatchDoubling ==
  (Calculated /\ Validated(doc)) =>
     /\ CostPerPieAt(doc.batchSize) = doc.calculatedCosts.costPerPie
     /\ 2 * CostPerPieAt(2 * doc.batchSize) - doc.calculatedCosts.costPerPie \in -2..2

\* the half of the stored cost per pie is not a whole number of cents:
\* 65.50 / 10 = 6.55, 65.50 / 20 = 3.275 -> 3.28
C11_Witness ==
  /\ Calculated /\ Validated(doc)
  /\ doc.batchSize = 10
  /\ doc.calculatedCosts.costPerPie % 2 = 1
  /\ CostPerPieAt(20) > 0
  /\ 2 * CostPerPieAt(20) # doc.calculatedCosts.costPerPie

\* C12: on a recipe whose batchSize is not above 0 updateCalculatedCostsAndPrice
\* completes without raising and sets costPerPie = 0 and sellingPrice = 0, while
\* totalIngredientCost, totalLaborCost and totalBatchCost are what they are for
\* the same recipe with a batch size above 0.
C12_ZeroBatchGuard ==
  (calls >= 1 /\ doc.batchSize <= 0 /\ ~Unresolved(doc, Ingredient)) =>
     LET ref == updateCalculatedCostsAndPrice([doc EXCEPT !.batchSize = 10], Ingredient)
     IN /\ response.status = 200
        /\ doc.calculatedCosts.costPerPie = 0
        /\ doc.sellingPrice = 0
        /\ unrounded.costPerPie = FromInt(0)
        /\ doc.calculatedCosts.totalIngredientCost = ref.calculatedCosts.totalIngredientCost
        /\ doc.calculatedCosts.totalLaborCost = ref.calculatedCosts.totalLaborCost
        /\ doc.calculatedCosts.totalBatchCost = ref.calculatedCosts.totalBatchCost

C12_Witness ==
  /\ Calculated
  /\ doc.batchSize = 0
  /\ doc.markupPercentage > 0
  /\ doc.calculatedCosts.totalBatchCost > 0
  /\ before.calculatedCosts = StaleCosts
  /\ doc.calculatedCosts.costPerPie = 0

C14_ErrorIdentifiesReference ==
  (calls >= 1 /\ Unresolved(doc, Ingredient)) =>
     /\ response.status = 400
     /\ Outputs(doc) = before
     /\ \E k \in 1..Len(response.message) :
           response.message[k] = doc.ingredients[FirstUnresolved(doc, Ingredient)].ingredient

(***************************************************************************)
(* Properties of the labor data (checked under SpecLabor)                  *)
(***************************************************************************)
\* the double r is the fraction n / d to within the rounding of double arithmetic
\* (of the two arguments, the division and the product): |r - n / d| <= (n / d) / 2^50,
\* and r >= 0
WithinRounding(r, n, d) ==
  LET a    == BigShl(BigMul(r.m, BigFromInt(d)), IF r.e > 0 THEN r.e ELSE 0)
      b    == BigShl(BigFromInt(n), IF r.e < 0 THEN -r.e ELSE 0)
      diff == IF BigCmp(a, b) >= 0 THEN BigSub(a, b) ELSE BigSub(b, a)
  IN ~r.neg /\ BigCmp(BigShl(diff, 50), b) <= 0

\* C17: calculateCostPerPie(costPerHour, minutesPerPie) returns costPerHour x
\* minutesPerPie / 60, to within the rounding of double arithmetic, when both
\* arguments are >= 0; it returns exactly 0 when either is negative, and never a
\* negative value.
C17_CostPerPie ==
  laborCall.called =>
     LET c == laborCall.costPerHour
         m == laborCall.minutesPerPie
     IN /\ ~laborCall.result.neg
        /\ (c < 0 \/ m < 0) => laborCall.result = FromInt(0)
        /\ (c >= 0 /\ m >= 0) => WithinRounding(laborCall.result, c * m, 60000)

\* 28 x (12 / 60): the double above 5.6, not the one nearest to it
C17_Witness ==
  /\ laborCall.called
  /\ laborCall.costPerHour = 2800 /\ laborCall.minutesPerPie = 120
  /\ laborCall.result # Number(56, 10)
  /\ laborCall.result # FromInt(0)

\* C18: after any sequence of createLabor and updateLabor requests with accepted
\* payloads, every persisted labor record has laborCostPerPie =
\* calculateCostPerPie(stored costPerHour, stored minutesPerPie).
C18_LaborCostConsistent ==
  \A id \in DOMAIN Labor :
     Labor[id].laborCostPerPie =
        calculateCostPerPie(Number(Labor[id].costPerHour, 100),
                            Number(Labor[id].minutesPerPie, 10))

(***************************************************************************)
(* Properties of the data migration and of the store it shares             *)
(***************************************************************************)
\* the markup of a cell as a percentage: the text "X%" is X percent, a number v
\* is 100 * v percent
MarkupAsPercentage(cell) ==
  CASE cell.kind = "text" -> 100 * cell.percent
    [] cell.kind = "number" -> 100 * cell.value
    [] OTHER -> 0

\* the body of the manual entry of the recipe a run persists
ManualEntry(wb) ==
  [pieName |-> recipeData(wb).pieName,
   variant |-> recipeData(wb).variant,
   batchSize |-> recipeData(wb).batchSize,
   ingredients |-> recipeData(wb).ingredients,
   laborInputs |-> recipeData(wb).laborInputs,
   laborHourlyRate |-> recipeData(wb).laborHourlyRate,
   markupPercentage |-> MarkupAsPercentage(wb.column.markup)]

\* C16: for every recipe the migration script persists, the stored calculatedCosts
\* and sellingPrice are those the create path stores for the same ingredient lines,
\* labor inputs, labor rate and batch size and the same markup as a percentage.
C16_ImportEquivalence ==
  [][\A id \in RecipeIds, wb \in Workbooks :
        (/\ response'.op = "migrateData"
         /\ response'.message = <<"upserted">>
         /\ migrateData(id, wb))
        => Outputs(Recipe'[id])
             = Outputs(updateCalculatedCostsAndPrice(NewRecipe(ManualEntry(wb)),
                                                     Ingredient'))]_vars

\* C19: every persisted recipe has a non-empty ingredient list and a non-empty
\* laborInputs list, whichever path wrote it: create, update or the import.
C19_NonEmptyLists ==
  \A id \in DOMAIN Recipe :
     Recipe[id].ingredients # <<>> /\ Recipe[id].laborInputs # <<>>

UniquePairs(coll) ==
  \A a, b \in DOMAIN coll :
     (coll[a].pieName = coll[b].pieName /\ coll[a].variant = coll[b].variant) => a = b

\* another document has the (pieName, variant) pair of r
PairTaken(coll, id, r) ==
  \E other \in DOMAIN coll \ {id} :
     coll[other].pieName = r.pieName /\ coll[other].variant = r.variant

\* C20: in every reachable state no two persisted recipes have the same
\* (pieName, variant) pair; a create or update that would produce a duplicate pair
\* fails and leaves the store unchanged.
C20_UniquePair ==
  [][/\ UniquePairs(Recipe')
     /\ \A id \in RecipeIds, body \in ImportBodies :
           (/\ response'.op = "createRecipe"
            /\ createRecipeValidationRules(body)
            /\ PairTaken(Recipe, id, NewRecipe(body))
            /\ createRecipe(id, body))
           => response'.status >= 400 /\ Recipe' = Recipe
     /\ \A id \in RecipeIds, body \in ImportPayloads :
           (/\ response'.op = "updateRecipe"
            /\ id \in DOMAIN Recipe
            /\ updateRecipeValidationRules(body)
            /\ PairTaken(Recipe, id, ObjectAssign(Recipe[id], body))
            /\ updateRecipe(id, body))
           => response'.status >= 400 /\ Recipe' = Recipe]_vars

\* two recipes are stored and an update that would give one the pair of the other
\* was answered with an error
C20_Witness ==
  /\ response.op = "updateRecipe" /\ response.status = 500
  /\ Cardinality(DOMAIN Recipe) = 2
  /\ \E id \in DOMAIN Recipe : Recipe[id].variant = "Standard" /\ Recipe[id].pieName = "Steak"

(***************************************************************************)
(* Properties of the stored figures                                        *)
(***************************************************************************)
\* C30: for every recipe persisted through the validated API paths all five stored
\* outputs are at least 0 and sellingPrice is at least costPerPie.
C30_OutputsNonNegative ==
  \A id \in DOMAIN Recipe :
     /\ Recipe[id].calculatedCosts.totalIngredientCost >= 0
     /\ Recipe[id].calculatedCosts.totalLaborCost >= 0
     /\ Recipe[id].calculatedCosts.totalBatchCost >= 0
     /\ Recipe[id].calculatedCosts.costPerPie >= 0
     /\ Recipe[id].sellingPrice >= 0
     /\ Recipe[id].sellingPrice >= Recipe[id].calculatedCosts.costPerPie

\* a recipe stored with a markup above zero, its price above its cost
C30_Witness ==
  \E id \in DOMAIN Recipe :
     /\ Recipe[id].markupPercentage > 0
     /\ Recipe[id].calculatedCosts.costPerPie > 0
     /\ Recipe[id].sellingPrice > Recipe[id].calculatedCosts.costPerPie

\* C26: rounding is applied only at finalization: the stored sellingPrice is the
\* 2-decimal rounding of ((ingredient subtotal + labor subtotal) / batchSize) x
\* (1 + markupPercentage / 100), the subtotals at 4 decimals, and is never computed
\* from the costPerPie already rounded to 2 decimals.
C26_RoundedAtFinalization ==
  (Calculated /\ Validated(doc)) =>
     IsHalfUp2(doc.sellingPrice, DecimalFigures.sellingPrice)

(***************************************************************************)
(* Properties of the recipe handlers: what a caller can set                *)
(***************************************************************************)
OutputFields == {"calculatedCosts", "sellingPrice"}

\* the body with calculatedCosts and sellingPrice set to c and s
WithOutputs(body, c, s) ==
  [f \in DOMAIN body \cup OutputFields |->
     IF f = "calculatedCosts" THEN c ELSE IF f = "sellingPrice" THEN s ELSE body[f]]

\* the bodies that differ from body in calculatedCosts and sellingPrice only
Variants(body) ==
  { [f \in DOMAIN body \ OutputFields |-> body[f]] }
    \cup { WithOutputs(body, c, s) : c \in {StaleCosts, ZeroCosts}, s \in {0, 31} }

\* C22: caller-supplied values for calculatedCosts or sellingPrice never reach
\* storage: a create or update whose payload carries them leaves the Recipe
\* collection as every request differing from it in those two fields only would,
\* and the two fields of the recipe written are the recomputed values.
C22_OutputsNotSettable ==
  [][/\ \A id \in RecipeIds, body \in CreateBodies :
           (/\ response'.op = "createRecipe"
            /\ DOMAIN body \cap OutputFields # {}
            /\ createRecipe(id, body)) =>
              /\ \A v \in Variants(body) :
                    RecipeAfterCreate(Recipe, id, v, Ingredient) = Recipe'
              /\ response'.status = 201 =>
                    Outputs(Recipe'[id]) =
                       Outputs(Costed(NewRecipe(Recipe'[id]), Ingredient))
     /\ \A id \in RecipeIds, body \in UpdatePayloads :
           (/\ response'.op = "updateRecipe"
            /\ DOMAIN body \cap OutputFields # {}
            /\ updateRecipe(id, body)) =>
              /\ \A v \in Variants(body) :
                    RecipeAfterUpdate(Recipe, id, v, Ingredient) = Recipe'
              /\ response'.status = 200 =>
                    Outputs(Recipe'[id]) =
                       Outputs(Costed(NewRecipe(Recipe'[id]), Ingredient))]_vars

\* the recipe created from the body that carries calculatedCosts and sellingPrice
\* of its own is stored with other figures
C22_Witness ==
  /\ response.op = "createRecipe" /\ response.status = 201
  /\ \E id \in DOMAIN Recipe :
        /\ Recipe[id].pieName = "Chicken" /\ Recipe[id].variant = "Mini"
        /\ Recipe[id].calculatedCosts # StaleCosts
        /\ Recipe[id].sellingPrice # 31

(***************************************************************************)
(* Properties of the variants of a pie                                     *)
(***************************************************************************)
\* the recipes with this name and another variant
OtherVariants(coll, r) ==
  { x \in DOMAIN coll : coll[x].pieName = r.pieName /\ coll[x].variant # r.variant }

\* both recipes persisted side by side, the older one as it was
SideBySide(id, r) ==
  /\ id \in DOMAIN Recipe'
  /\ Recipe'[id].pieName = r.pieName /\ Recipe'[id].variant = r.variant
  /\ Outputs(Recipe'[id]) = Outputs(Costed(r, Ingredient'))
  /\ \A o \in OtherVariants(Recipe, r) : o \in DOMAIN Recipe' /\ Recipe'[o] = Recipe[o]

\* C29: when a recipe (P, V1) is persisted, creating or importing a valid recipe
\* (P, V2), V2 # V1, no (P, V2) being stored yet, succeeds, and both are then
\* persisted side by side, each with its own calculatedCosts and sellingPrice.
C29_VariantsShareName ==
  [][/\ \A id \in RecipeIds, body \in ImportBodies :
           (/\ response'.op = "createRecipe"
            /\ createRecipe(id, body)
            /\ createRecipeValidationRules(body)
            /\ ~Unresolved(NewRecipe(body), Ingredient)
            /\ OtherVariants(Recipe, NewRecipe(body)) # {}
            /\ Matching(Recipe, NewRecipe(body)) = {}) =>
              /\ response'.status = 201
              /\ SideBySide(id, NewRecipe(body))
     /\ \A id \in RecipeIds, wb \in Workbooks :
           (/\ response'.op = "migrateData"
            /\ migrateData(id, wb)
            /\ ~ColumnSkipped(wb)
            /\ OtherVariants(Recipe, NewRecipe(recipeData(wb))) # {}
            /\ Matching(Recipe, NewRecipe(recipeData(wb))) = {}) =>
              /\ response'.message = <<"upserted">>
              /\ SideBySide(id, NewRecipe(recipeData(wb)))]_vars

(***************************************************************************)
(* Properties of the two collections together                              *)
(***************************************************************************)
\* C28: referential integrity: in every reachable state every ingredient
\* reference of every persisted recipe resolves to an existing ingredient record.
C28_ReferencesResolve ==
  \A id \in DOMAIN Recipe : ~Unresolved(Recipe[id], Ingredient)

\* C21: in every reachable state no two ingredient records have names that are
\* equal ignoring letter case.
C21_NamesUniqueIgnoringCase ==
  \A a, b \in DOMAIN Ingredient :
     (a # b /\ Has(Ingredient[a], "name") /\ Has(Ingredient[b], "name")) =>
        toLowerCase(Ingredient[a].name) # toLowerCase(Ingredient[b].name)

\* C27: updateIngredient, deleteIngredient, bulkDeleteIngredients and
\* importIngredients change only ingredient records: every persisted recipe, its
\* inputs, calculatedCosts and sellingPrice, is after the request what it was before.
C27_IngredientMutationsLeaveRecipes ==
  [][/\ (\E id \in IngIds, body \in NamedPayloads : updateIngredient(id, body))
           => Recipe' = Recipe
     /\ (\E id \in IngIds : deleteIngredient(id)) => Recipe' = Recipe
     /\ (\E ids \in SUBSET IngIds : bulkDeleteIngredients(ids)) => Recipe' = Recipe
     /\ (\E sheet \in Sheets, order \in NaturalOrders : importIngredients(sheet, order))
           => Recipe' = Recipe]_vars

\* an ingredient's cost changed under a stored recipe, whose figures are the old ones
C27_Witness ==
  /\ response.op \in {"updateIngredient", "importIngredients"}
  /\ response.status = 200
  /\ \E id \in DOMAIN Recipe :
        /\ ~Unresolved(Recipe[id], Ingredient)
        /\ Outputs(Recipe[id]) # Outputs(Costed(Recipe[id], Ingredient))

(***************************************************************************)
(* Properties of the access control (checked under SpecAccess)             *)
(***************************************************************************)
Stores == <<Ingredient, Recipe, Labor>>

\* C23: a request without a valid token is answered 401, a write by a user whose
\* role is 'user' is answered 403, and both leave every stored recipe, ingredient
\* and labor record as it was; a read by any authenticated user is answered 200.
C23_AccessControl ==
  [][\A c \in Callers :
        /\ (~protect(c) /\ (RecipeWriteBy(c) \/ IngredientWriteBy(c) \/ LaborWriteBy(c)
                            \/ ReadBy(c)))
              => (response'.status = 401 /\ UNCHANGED Stores)
        /\ (protect(c) /\ c.role = "user"
            /\ (RecipeWriteBy(c) \/ IngredientWriteBy(c) \/ LaborWriteBy(c)))
              => (response'.status = 403 /\ UNCHANGED Stores)
        /\ (protect(c) /\ ReadBy(c))
              => (response'.status = 200 /\ UNCHANGED Stores)]_vars

\* a delete turned down with 403 while there is a recipe, an ingredient and a labor
\* record to delete
C23_Witness ==
  /\ response.status = 403
  /\ response.op \in {"deleteRecipe", "deleteIngredient", "deleteLabor"}
  /\ DOMAIN Recipe # {} /\ DOMAIN Ingredient # {} /\ DOMAIN Labor # {}

(***************************************************************************)
(* Properties of the accounts (checked under SpecAuth)                     *)
(***************************************************************************)
\* C24: a registration with a valid username, email and password of 6 characters
\* or more and an unused email answers 201 with a token, and a login with the
\* same email and password, sent next, answers 200 with a token.
C24_RegisterThenLogin ==
  [][\A body \in RegisterBodies :
        (/\ registerValidationRules(body)
         /\ ~DuplicateUser(User, body)
         /\ register(body)) =>
           /\ response'.status = 201 /\ response'.message = <<"token">>
           /\ OutcomeOfLogin(User', [email |-> body.email, password |-> body.password])
                 = [status |-> 200, message |-> <<"token">>]]_vars

(***************************************************************************)
(* Properties of concurrent updates (checked under SpecConcurrent)         *)
(***************************************************************************)
\* C25: each recipe update is one atomic unit of work: whatever the interleaving
\* of two updateRecipe requests on one recipe, once both have completed the stored
\* calculatedCosts and sellingPrice are the calculator's output for the stored
\* inputs.
C25_AtomicUpdates ==
  (\A r \in Requests : inflight[r].pc = "none") =>
     \A id \in DOMAIN Recipe :
        ~Unresolved(Recipe[id], Ingredient) =>
           Outputs(Recipe[id]) = Outputs(Costed(Recipe[id], Ingredient))

====
